---- MODULE Spec2Model ----
(***************************************************************************)
(* Model of the deterministic workflow execution core of cadence-client:   *)
(* the decision state machines and decisionsHelper, the workflow           *)
(* environment (workflowEnvironmentImpl) and the event handler             *)
(* (workflowExecutionEventHandlerImpl.ProcessEvent).                       *)
(*                                                                         *)
(* Go methods are modelled as operators over value records: an operator    *)
(* takes the receiver (the decisionsHelper h, a machine d, the environment *)
(* wc) and returns the receiver after the call together with the panic it  *)
(* raised, if any.  Effects made before a panic are kept, as in Go.        *)
(***************************************************************************)
EXTENDS Integers, Sequences, FiniteSets, TLC

\* ------------------------------------------------------------------ bounds
MaxCounter == 1
MaxEventID == 1
MaxStartedCalls == 1
MaxTime == 1
MaxVersion == 2

\* --------------------------------------------------------------- constants
decisionStateCreated == "Created"
decisionStateDecisionSent == "DecisionSent"
decisionStateCanceledBeforeInitiated == "CanceledBeforeInitiated"
decisionStateInitiated == "Initiated"
decisionStateStarted == "Started"
decisionStateCanceledAfterInitiated == "CanceledAfterInitiated"
decisionStateCanceledAfterStarted == "CanceledAfterStarted"
decisionStateCancellationDecisionSent == "CancellationDecisionSent"
decisionStateCompletedAfterCancellationDecisionSent == "CompletedAfterCancellationDecisionSent"
decisionStateCompleted == "Completed"

decisionTypeActivity == "Activity"
decisionTypeChildWorkflow == "ChildWorkflow"
decisionTypeCancellation == "Cancellation"
decisionTypeMarker == "Marker"
decisionTypeTimer == "Timer"
decisionTypeSignal == "Signal"
decisionTypeUpsertSearchAttributes == "UpsertSearchAttributes"

eventCancel == "cancel"
eventDecisionSent == "handleDecisionSent"
eventInitiated == "handleInitiatedEvent"
eventInitiationFailed == "handleInitiationFailedEvent"
eventStarted == "handleStartedEvent"
eventCompletion == "handleCompletionEvent"
eventCancelInitiated == "handleCancelInitiatedEvent"
eventCancelFailed == "handleCancelFailedEvent"
eventCanceled == "handleCanceledEvent"

sideEffectMarkerName == "SideEffect"
versionMarkerName == "Version"
localActivityMarkerName == "LocalActivity"
mutableSideEffectMarkerName == "MutableSideEffect"

CadenceChangeVersion == "CadenceChangeVersion"
DefaultVersion == -1

\* ------------------------------------------------------------------ panics
NoPanic == "none"
PanicUnknownDecision == "unknown decision"
PanicInvalidTransition == "invalid state transition"
PanicDuplicateDecision == "adding duplicate decision"
PanicNoActivityID == "unable to find activity ID"
PanicNoSignalID == "unable to find signal ID"
PanicUnsupported == "unsupported operation"
PanicAlreadyHandled == "already handled"
PanicNoSideEffect == "No cached result found for side effectID"
PanicNoMutableSideEffect == "MutableSideEffect API call doesn't have a correspondent event"
PanicVersion == "unsupported version"
PanicSanity == "cancellation sanity check"
PanicNilDefinition == "nil workflowDefinition"
PanicUserCode == "user code panic"
PanicLocalActivityMismatch == "code execute local activity, but history event found"

\* the panics raised through panicIllegalState, i.e. stateMachineIllegalStatePanic
stateMachineIllegalStatePanic ==
    {PanicUnknownDecision, PanicInvalidTransition, PanicDuplicateDecision,
     PanicNoActivityID, PanicLocalActivityMismatch}

\* ------------------------------------------------------------ list helpers
RemoveAt(s, i) == SubSeq(s, 1, i - 1) \o SubSeq(s, i + 1, Len(s))

Range(s) == {s[i] : i \in 1..Len(s)}

\* fmt.Sprintf("%d", n) / "%v_%v"
Sprintf(n) == ToString(n)

\* ------------------------------------------------------- decision machines
makeDecisionID(decisionType, id) == [decisionType |-> decisionType, id |-> id]

\* the waiter kept in a machine's data (scheduledTimer, scheduledActivity, ...);
\* calls counts the invocations of the result callback, startedCalls those of
\* the child workflow started callback, result is the last outcome delivered
NoData ==
    [kind |-> "none", handled |-> FALSE, waitForCancelRequest |-> FALSE,
     calls |-> 0, startedCalls |-> 0, result |-> "none"]

NewWaiter(kind, wait) == [NoData EXCEPT !.kind = kind, !.waitForCancelRequest = wait]

NoAttributes == [decision |-> "none", id |-> "", details |-> <<>>]

newDecisionStateMachineBase(decisionType, id) ==
    [id |-> makeDecisionID(decisionType, id),
     state |-> decisionStateCreated,
     canceled |-> FALSE,
     attributes |-> NoAttributes,
     data |-> NoData]

NoMachine == [newDecisionStateMachineBase("none", "") EXCEPT !.state = "none"]

\* the result of a call on the helper: the helper after the call, the machine
\* the call worked on and the panic raised
Ret(h, d, panic) == [h |-> h, d |-> d, panic |-> panic]

InMap(h, id) == id \in h.decisions

IndexOfID(h, id) ==
    CHOOSE i \in 1..Len(h.orderedDecisions) : h.orderedDecisions[i].id = id

InList(h, id) == \E i \in 1..Len(h.orderedDecisions) : h.orderedDecisions[i].id = id

MachineAt(h, did) == h.orderedDecisions[IndexOfID(h, did)]

\* a machine is held by pointer: a change of the machine shows in the list
StoreMachine(h, d) ==
    IF InList(h, d.id)
      THEN [h EXCEPT !.orderedDecisions[IndexOfID(h, d.id)] = d]
      ELSE h

RemoveMachine(h, id) ==
    [h EXCEPT !.orderedDecisions = IF InList(h, id) THEN RemoveAt(@, IndexOfID(h, id)) ELSE @,
              !.decisions = @ \ {id}]

setData(h, d, data) ==
    LET d2 == [d EXCEPT !.data = data]
    IN  Ret(StoreMachine(h, d2), d2, NoPanic)

decisionStateMachineBase_isDone(d) ==
    d.state = decisionStateCompleted \/ d.state = decisionStateCompletedAfterCancellationDecisionSent

moveState_keepCompleted(h, d, newState) ==
    LET d2 == [d EXCEPT !.state = newState]
    IN  Ret(StoreMachine(h, d2), d2, NoPanic)

moveState(h, d, newState) ==
    LET d2 == [d EXCEPT !.state = newState]
    IN  IF newState = decisionStateCompleted /\ InMap(h, d.id)
          THEN Ret(RemoveMachine(h, d.id), d2, NoPanic)
          ELSE Ret(StoreMachine(h, d2), d2, NoPanic)

failStateTransition_completes(h, d) ==
    Ret(RemoveMachine(h, d.id), [d EXCEPT !.state = decisionStateCompleted], PanicInvalidTransition)

failStateTransition(h, d) == Ret(h, d, PanicInvalidTransition)

decisionStateMachineBase_handleDecisionSent(h, d) ==
    IF d.state = decisionStateCreated
      THEN moveState(h, d, decisionStateDecisionSent)
      ELSE Ret(h, d, NoPanic)

decisionStateMachineBase_cancel_keepsCreated(h, d) ==
    CASE d.state \in {decisionStateCompleted, decisionStateCompletedAfterCancellationDecisionSent} ->
           Ret(h, d, NoPanic)
      [] d.state = decisionStateCreated -> moveState(h, d, decisionStateCanceledBeforeInitiated)
      [] d.state = decisionStateDecisionSent -> moveState(h, d, decisionStateCanceledBeforeInitiated)
      [] d.state = decisionStateInitiated -> moveState(h, d, decisionStateCanceledAfterInitiated)
      [] OTHER -> failStateTransition(h, d)

decisionStateMachineBase_cancel(h, d) ==
    CASE d.state \in {decisionStateCompleted, decisionStateCompletedAfterCancellationDecisionSent} ->
           Ret(h, d, NoPanic)
      [] d.state = decisionStateCreated -> moveState(h, d, decisionStateCompleted)
      [] d.state = decisionStateDecisionSent -> moveState(h, d, decisionStateCanceledBeforeInitiated)
      [] d.state = decisionStateInitiated -> moveState(h, d, decisionStateCanceledAfterInitiated)
      [] OTHER -> failStateTransition(h, d)

decisionStateMachineBase_handleInitiatedEvent_forgetsCancel(h, d) ==
    CASE d.state = decisionStateDecisionSent -> moveState(h, d, decisionStateInitiated)
      [] d.state = decisionStateCanceledBeforeInitiated -> moveState(h, d, decisionStateInitiated)
      [] OTHER -> failStateTransition(h, d)

decisionStateMachineBase_handleInitiatedEvent(h, d) ==
    CASE d.state = decisionStateDecisionSent -> moveState(h, d, decisionStateInitiated)
      [] d.state = decisionStateCanceledBeforeInitiated -> moveState(h, d, decisionStateCanceledAfterInitiated)
      [] OTHER -> failStateTransition(h, d)

decisionStateMachineBase_handleInitiationFailedEvent(h, d) ==
    IF d.state \in {decisionStateInitiated, decisionStateDecisionSent, decisionStateCanceledBeforeInitiated}
      THEN moveState(h, d, decisionStateCompleted)
      ELSE failStateTransition(h, d)

decisionStateMachineBase_handleStartedEvent(h, d) == Ret(h, d, NoPanic)

decisionStateMachineBase_handleCompletionEvent_skipsWait(h, d) ==
    CASE d.state \in {decisionStateCanceledAfterInitiated, decisionStateInitiated,
                      decisionStateCancellationDecisionSent} ->
           moveState(h, d, decisionStateCompleted)
      [] OTHER -> failStateTransition(h, d)

decisionStateMachineBase_handleCompletionEvent(h, d) ==
    CASE d.state \in {decisionStateCanceledAfterInitiated, decisionStateInitiated} ->
           moveState(h, d, decisionStateCompleted)
      [] d.state = decisionStateCancellationDecisionSent ->
           moveState(h, d, decisionStateCompletedAfterCancellationDecisionSent)
      [] OTHER -> failStateTransition(h, d)

decisionStateMachineBase_handleCancelInitiatedEvent(h, d) ==
    IF d.state = decisionStateCancellationDecisionSent
      THEN Ret(h, d, NoPanic)
      ELSE failStateTransition(h, d)

decisionStateMachineBase_handleCancelFailedEvent(h, d) ==
    IF d.state = decisionStateCompletedAfterCancellationDecisionSent
      THEN moveState(h, d, decisionStateCompleted)
      ELSE failStateTransition(h, d)

decisionStateMachineBase_handleCanceledEvent_lenient(h, d) ==
    IF d.state = decisionStateCancellationDecisionSent
      THEN moveState(h, d, decisionStateCompleted)
      ELSE Ret(h, d, NoPanic)

decisionStateMachineBase_handleCanceledEvent(h, d) ==
    IF d.state = decisionStateCancellationDecisionSent
      THEN moveState(h, d, decisionStateCompleted)
      ELSE failStateTransition(h, d)

\* ---- activity
activityDecisionStateMachine_getDecision_early(d) ==
    CASE d.state = decisionStateCreated -> <<d.attributes>>
      [] d.state \in {decisionStateCanceledBeforeInitiated, decisionStateCanceledAfterInitiated} ->
           <<[decision |-> "RequestCancelActivityTask", id |-> d.attributes.id, details |-> <<>>]>>
      [] OTHER -> <<>>

activityDecisionStateMachine_getDecision(d) ==
    CASE d.state = decisionStateCreated -> <<d.attributes>>
      [] d.state = decisionStateCanceledAfterInitiated ->
           <<[decision |-> "RequestCancelActivityTask", id |-> d.attributes.id, details |-> <<>>]>>
      [] OTHER -> <<>>

activityDecisionStateMachine_handleDecisionSent(h, d) ==
    IF d.state = decisionStateCanceledAfterInitiated
      THEN moveState(h, d, decisionStateCancellationDecisionSent)
      ELSE decisionStateMachineBase_handleDecisionSent(h, d)

activityDecisionStateMachine_handleCancelFailedEvent(h, d) ==
    IF d.state = decisionStateCancellationDecisionSent
      THEN moveState(h, d, decisionStateInitiated)
      ELSE decisionStateMachineBase_handleCancelFailedEvent(h, d)

\* ---- timer
timerDecisionStateMachine_cancel_noFlag(h, d) ==
    decisionStateMachineBase_cancel(h, d)

timerDecisionStateMachine_cancel(h, d) ==
    LET d2 == [d EXCEPT !.canceled = TRUE]
    IN  decisionStateMachineBase_cancel(StoreMachine(h, d2), d2)

timerDecisionStateMachine_isDone(d) ==
    d.state = decisionStateCompleted \/ d.canceled

timerDecisionStateMachine_handleDecisionSent(h, d) ==
    IF d.state = decisionStateCanceledAfterInitiated
      THEN moveState(h, d, decisionStateCancellationDecisionSent)
      ELSE decisionStateMachineBase_handleDecisionSent(h, d)

timerDecisionStateMachine_handleCancelFailedEvent(h, d) ==
    IF d.state = decisionStateCancellationDecisionSent
      THEN moveState(h, d, decisionStateInitiated)
      ELSE decisionStateMachineBase_handleCancelFailedEvent(h, d)

timerDecisionStateMachine_getDecision(d) ==
    CASE d.state = decisionStateCreated -> <<d.attributes>>
      [] d.state = decisionStateCanceledAfterInitiated ->
           <<[decision |-> "CancelTimer", id |-> d.attributes.id, details |-> <<>>]>>
      [] OTHER -> <<>>

\* ---- child workflow
childWorkflowDecisionStateMachine_getDecision_early(d) ==
    CASE d.state = decisionStateCreated -> <<d.attributes>>
      [] d.state \in {decisionStateCanceledAfterInitiated, decisionStateCanceledAfterStarted} ->
           <<[decision |-> "RequestCancelExternalWorkflowExecution", id |-> d.attributes.id,
              details |-> <<"ChildWorkflowOnly">>]>>
      [] OTHER -> <<>>

childWorkflowDecisionStateMachine_getDecision(d) ==
    CASE d.state = decisionStateCreated -> <<d.attributes>>
      [] d.state = decisionStateCanceledAfterStarted ->
           <<[decision |-> "RequestCancelExternalWorkflowExecution", id |-> d.attributes.id,
              details |-> <<"ChildWorkflowOnly">>]>>
      [] OTHER -> <<>>

childWorkflowDecisionStateMachine_handleDecisionSent(h, d) ==
    IF d.state = decisionStateCanceledAfterStarted
      THEN moveState(h, d, decisionStateCancellationDecisionSent)
      ELSE decisionStateMachineBase_handleDecisionSent(h, d)

childWorkflowDecisionStateMachine_handleStartedEvent(h, d) ==
    CASE d.state = decisionStateInitiated -> moveState(h, d, decisionStateStarted)
      [] d.state = decisionStateCanceledAfterInitiated -> moveState(h, d, decisionStateCanceledAfterStarted)
      [] OTHER -> decisionStateMachineBase_handleStartedEvent(h, d)

childWorkflowDecisionStateMachine_handleCancelFailedEvent_toInitiated(h, d) ==
    IF d.state = decisionStateCancellationDecisionSent
      THEN moveState(h, d, decisionStateInitiated)
      ELSE decisionStateMachineBase_handleCancelFailedEvent(h, d)

childWorkflowDecisionStateMachine_handleCancelFailedEvent(h, d) ==
    IF d.state = decisionStateCancellationDecisionSent
      THEN moveState(h, d, decisionStateStarted)
      ELSE decisionStateMachineBase_handleCancelFailedEvent(h, d)

childWorkflowDecisionStateMachine_cancel_baseOnly(h, d) ==
    decisionStateMachineBase_cancel(h, d)

childWorkflowDecisionStateMachine_cancel(h, d) ==
    IF d.state = decisionStateStarted
      THEN moveState(h, d, decisionStateCanceledAfterStarted)
      ELSE decisionStateMachineBase_cancel(h, d)

childWorkflowDecisionStateMachine_handleCanceledEvent(h, d) ==
    IF d.state = decisionStateStarted
      THEN moveState(h, d, decisionStateCompleted)
      ELSE decisionStateMachineBase_handleCanceledEvent(h, d)

childWorkflowDecisionStateMachine_handleCompletionEvent(h, d) ==
    IF d.state \in {decisionStateStarted, decisionStateCanceledAfterStarted}
      THEN moveState(h, d, decisionStateCompleted)
      ELSE decisionStateMachineBase_handleCompletionEvent(h, d)

\* ---- naive machines: cancellation, signal, marker, upsert search attributes
naiveDecisionStateMachine_getDecision(d) ==
    IF d.state = decisionStateCreated THEN <<d.attributes>> ELSE <<>>

naiveDecisionStateMachine_unsupported(h, d) == Ret(h, d, PanicUnsupported)

cancelExternalWorkflowDecisionStateMachine_handleInitiatedEvent_lenient(h, d) ==
    IF d.state \in {decisionStateCreated, decisionStateDecisionSent}
      THEN moveState(h, d, decisionStateInitiated)
      ELSE failStateTransition(h, d)

cancelExternalWorkflowDecisionStateMachine_handleInitiatedEvent(h, d) ==
    IF d.state = decisionStateDecisionSent
      THEN moveState(h, d, decisionStateInitiated)
      ELSE failStateTransition(h, d)

cancelExternalWorkflowDecisionStateMachine_handleCompletionEvent(h, d) ==
    IF d.state = decisionStateInitiated
      THEN moveState(h, d, decisionStateCompleted)
      ELSE failStateTransition(h, d)

signalExternalWorkflowDecisionStateMachine_handleInitiatedEvent(h, d) ==
    IF d.state = decisionStateDecisionSent
      THEN moveState(h, d, decisionStateInitiated)
      ELSE failStateTransition(h, d)

signalExternalWorkflowDecisionStateMachine_handleCompletionEvent(h, d) ==
    IF d.state = decisionStateInitiated
      THEN moveState(h, d, decisionStateCompleted)
      ELSE failStateTransition(h, d)

markerDecisionStateMachine_handleDecisionSent_waits(h, d) ==
    decisionStateMachineBase_handleDecisionSent(h, d)

markerDecisionStateMachine_handleDecisionSent(h, d) ==
    IF d.state = decisionStateCreated
      THEN moveState(h, d, decisionStateCompleted)
      ELSE Ret(h, d, NoPanic)

upsertSearchAttributesDecisionStateMachine_handleDecisionSent(h, d) ==
    IF d.state = decisionStateCreated
      THEN moveState(h, d, decisionStateCompleted)
      ELSE Ret(h, d, NoPanic)

\* ---- the decisionStateMachine interface: dispatch on the variant
Variant(d) == d.id.decisionType

isDone(d) ==
    IF Variant(d) = decisionTypeTimer
      THEN timerDecisionStateMachine_isDone(d)
      ELSE decisionStateMachineBase_isDone(d)

getDecision_of(d) ==
    CASE Variant(d) = decisionTypeActivity -> activityDecisionStateMachine_getDecision(d)
      [] Variant(d) = decisionTypeTimer -> timerDecisionStateMachine_getDecision(d)
      [] Variant(d) = decisionTypeChildWorkflow -> childWorkflowDecisionStateMachine_getDecision(d)
      [] OTHER -> naiveDecisionStateMachine_getDecision(d)

handleDecisionSent(h, d) ==
    CASE Variant(d) = decisionTypeActivity -> activityDecisionStateMachine_handleDecisionSent(h, d)
      [] Variant(d) = decisionTypeTimer -> timerDecisionStateMachine_handleDecisionSent(h, d)
      [] Variant(d) = decisionTypeChildWorkflow -> childWorkflowDecisionStateMachine_handleDecisionSent(h, d)
      [] Variant(d) = decisionTypeMarker -> markerDecisionStateMachine_handleDecisionSent(h, d)
      [] Variant(d) = decisionTypeUpsertSearchAttributes ->
           upsertSearchAttributesDecisionStateMachine_handleDecisionSent(h, d)
      [] OTHER -> decisionStateMachineBase_handleDecisionSent(h, d)

cancel(h, d) ==
    CASE Variant(d) = decisionTypeActivity -> decisionStateMachineBase_cancel(h, d)
      [] Variant(d) = decisionTypeTimer -> timerDecisionStateMachine_cancel(h, d)
      [] Variant(d) = decisionTypeChildWorkflow -> childWorkflowDecisionStateMachine_cancel(h, d)
      [] OTHER -> naiveDecisionStateMachine_unsupported(h, d)

handleInitiatedEvent(h, d) ==
    CASE Variant(d) \in {decisionTypeActivity, decisionTypeTimer, decisionTypeChildWorkflow} ->
           decisionStateMachineBase_handleInitiatedEvent(h, d)
      [] Variant(d) = decisionTypeCancellation ->
           cancelExternalWorkflowDecisionStateMachine_handleInitiatedEvent(h, d)
      [] Variant(d) = decisionTypeSignal ->
           signalExternalWorkflowDecisionStateMachine_handleInitiatedEvent(h, d)
      [] OTHER -> naiveDecisionStateMachine_unsupported(h, d)

handleInitiationFailedEvent(h, d) ==
    IF Variant(d) \in {decisionTypeActivity, decisionTypeTimer, decisionTypeChildWorkflow}
      THEN decisionStateMachineBase_handleInitiationFailedEvent(h, d)
      ELSE naiveDecisionStateMachine_unsupported(h, d)

handleStartedEvent(h, d) ==
    CASE Variant(d) \in {decisionTypeActivity, decisionTypeTimer} ->
           decisionStateMachineBase_handleStartedEvent(h, d)
      [] Variant(d) = decisionTypeChildWorkflow -> childWorkflowDecisionStateMachine_handleStartedEvent(h, d)
      [] OTHER -> naiveDecisionStateMachine_unsupported(h, d)

handleCompletionEvent(h, d) ==
    CASE Variant(d) \in {decisionTypeActivity, decisionTypeTimer} ->
           decisionStateMachineBase_handleCompletionEvent(h, d)
      [] Variant(d) = decisionTypeChildWorkflow ->
           childWorkflowDecisionStateMachine_handleCompletionEvent(h, d)
      [] Variant(d) = decisionTypeCancellation ->
           cancelExternalWorkflowDecisionStateMachine_handleCompletionEvent(h, d)
      [] Variant(d) = decisionTypeSignal ->
           signalExternalWorkflowDecisionStateMachine_handleCompletionEvent(h, d)
      [] OTHER -> naiveDecisionStateMachine_unsupported(h, d)

handleCancelInitiatedEvent(h, d) ==
    IF Variant(d) \in {decisionTypeActivity, decisionTypeTimer, decisionTypeChildWorkflow}
      THEN decisionStateMachineBase_handleCancelInitiatedEvent(h, d)
      ELSE naiveDecisionStateMachine_unsupported(h, d)

handleCancelFailedEvent(h, d) ==
    CASE Variant(d) = decisionTypeActivity -> activityDecisionStateMachine_handleCancelFailedEvent(h, d)
      [] Variant(d) = decisionTypeTimer -> timerDecisionStateMachine_handleCancelFailedEvent(h, d)
      [] Variant(d) = decisionTypeChildWorkflow ->
           childWorkflowDecisionStateMachine_handleCancelFailedEvent(h, d)
      [] OTHER -> naiveDecisionStateMachine_unsupported(h, d)

handleCanceledEvent(h, d) ==
    CASE Variant(d) \in {decisionTypeActivity, decisionTypeTimer} ->
           decisionStateMachineBase_handleCanceledEvent(h, d)
      [] Variant(d) = decisionTypeChildWorkflow -> childWorkflowDecisionStateMachine_handleCanceledEvent(h, d)
      [] OTHER -> naiveDecisionStateMachine_unsupported(h, d)


\* ---------------------------------------------------------- decisionsHelper
newDecisionsHelper ==
    [orderedDecisions |-> <<>>,
     decisions |-> {},
     scheduledEventIDToActivityID |-> <<>>,
     scheduledEventIDToCancellationID |-> <<>>,
     scheduledEventIDToSignalID |-> <<>>]

\* map[k] = v
MapSet(m, k, v) == (k :> v) @@ m

MapHas(m, k) == k \in DOMAIN m

\* run f on the machine of r unless r already panicked
Then(r, f(_, _)) == IF r.panic # NoPanic THEN r ELSE f(r.h, r.d)

getDecision_noMove(h, id) ==
    IF ~InMap(h, id)
      THEN Ret(h, NoMachine, PanicUnknownDecision)
      ELSE Ret(h, h.orderedDecisions[IndexOfID(h, id)], NoPanic)

getDecision(h, id) ==
    IF ~InMap(h, id)
      THEN Ret(h, NoMachine, PanicUnknownDecision)
      ELSE LET i == IndexOfID(h, id)
           IN  LET d == h.orderedDecisions[i]
               IN  Ret([h EXCEPT !.orderedDecisions = Append(RemoveAt(@, i), d)], d, NoPanic)

addDecision_lenient(h, d) ==
    Ret([h EXCEPT !.orderedDecisions = Append(@, d),
                  !.decisions = @ \cup {d.id}], d, NoPanic)

addDecision(h, d) ==
    IF InMap(h, d.id)
      THEN Ret(h, d, PanicDuplicateDecision)
      ELSE Ret([h EXCEPT !.orderedDecisions = Append(@, d),
                         !.decisions = @ \cup {d.id}], d, NoPanic)

Attr(decision, id, details) == [decision |-> decision, id |-> id, details |-> details]

newMachine(decisionType, id, attributes) ==
    [newDecisionStateMachineBase(decisionType, id) EXCEPT !.attributes = attributes]

scheduleActivityTask(h, activityID) ==
    addDecision(h, newMachine(decisionTypeActivity, activityID,
                              Attr("ScheduleActivityTask", activityID, <<>>)))

requestCancelActivityTask(h, activityID) ==
    Then(getDecision(h, makeDecisionID(decisionTypeActivity, activityID)), cancel)

handleActivityTaskClosed(h, activityID) ==
    Then(getDecision(h, makeDecisionID(decisionTypeActivity, activityID)), handleCompletionEvent)

handleActivityTaskScheduled(h, scheduledEventID, activityID) ==
    LET h2 == [h EXCEPT !.scheduledEventIDToActivityID = MapSet(@, scheduledEventID, activityID)]
    IN  Then(getDecision(h2, makeDecisionID(decisionTypeActivity, activityID)), handleInitiatedEvent)

handleActivityTaskCancelRequested(h, activityID) ==
    Then(getDecision(h, makeDecisionID(decisionTypeActivity, activityID)), handleCancelInitiatedEvent)

handleActivityTaskCanceled(h, activityID) ==
    Then(getDecision(h, makeDecisionID(decisionTypeActivity, activityID)), handleCanceledEvent)

handleRequestCancelActivityTaskFailed(h, activityID) ==
    Then(getDecision(h, makeDecisionID(decisionTypeActivity, activityID)), handleCancelFailedEvent)

\* the activity ID of a close event, "" with a panic when the scheduled event is unknown
getActivityID(h, scheduledEventID) ==
    IF MapHas(h.scheduledEventIDToActivityID, scheduledEventID)
      THEN [id |-> h.scheduledEventIDToActivityID[scheduledEventID], panic |-> NoPanic]
      ELSE [id |-> "", panic |-> PanicNoActivityID]

MarkerID(markerName, id) == markerName \o "_" \o id

recordMarker(h, markerName, id, details) ==
    addDecision(h, newMachine(decisionTypeMarker, MarkerID(markerName, id),
                              Attr(markerName, id, details)))

recordVersionMarker_none(h, changeID, details) == Ret(h, NoMachine, NoPanic)

recordVersionMarker(h, changeID, details) == recordMarker(h, versionMarkerName, changeID, details)

recordSideEffectMarker(h, sideEffectID, data) ==
    recordMarker(h, sideEffectMarkerName, Sprintf(sideEffectID), data)

recordLocalActivityMarker(h, activityID, result) ==
    recordMarker(h, localActivityMarkerName, activityID, result)

recordMutableSideEffectMarker(h, mutableSideEffectID, data) ==
    recordMarker(h, mutableSideEffectMarkerName, mutableSideEffectID, data)

startChildWorkflowExecution(h, workflowID) ==
    addDecision(h, newMachine(decisionTypeChildWorkflow, workflowID,
                              Attr("StartChildWorkflowExecution", workflowID, <<>>)))

handleStartChildWorkflowExecutionInitiated(h, workflowID) ==
    Then(getDecision(h, makeDecisionID(decisionTypeChildWorkflow, workflowID)), handleInitiatedEvent)

handleStartChildWorkflowExecutionFailed(h, workflowID) ==
    Then(getDecision(h, makeDecisionID(decisionTypeChildWorkflow, workflowID)), handleInitiationFailedEvent)

requestCancelExternalWorkflowExecution(h, workflowID, runID, cancellationID, childWorkflowOnly) ==
    IF childWorkflowOnly
      THEN IF cancellationID # "" \/ runID # ""
             THEN Ret(h, NoMachine, PanicSanity)
             ELSE Then(getDecision(h, makeDecisionID(decisionTypeChildWorkflow, workflowID)), cancel)
      ELSE IF cancellationID = ""
             THEN Ret(h, NoMachine, PanicSanity)
             ELSE addDecision(h, newMachine(decisionTypeCancellation, cancellationID,
                       Attr("RequestCancelExternalWorkflowExecution", workflowID,
                            <<runID, cancellationID>>)))

isCancelExternalWorkflowEventForChildWorkflow(cancellationID) == cancellationID = ""

handleRequestCancelExternalWorkflowExecutionInitiated(h, initiatedeventID, workflowID, cancellationID) ==
    IF isCancelExternalWorkflowEventForChildWorkflow(cancellationID)
      THEN Then(getDecision(h, makeDecisionID(decisionTypeChildWorkflow, workflowID)),
                handleCancelInitiatedEvent)
      ELSE LET h2 == [h EXCEPT !.scheduledEventIDToCancellationID =
                                   MapSet(@, initiatedeventID, cancellationID)]
           IN  Then(getDecision(h2, makeDecisionID(decisionTypeCancellation, cancellationID)),
                    handleInitiatedEvent)

\* both return (isExternal, decision)
IsExternal(h, initiatedeventID) == MapHas(h.scheduledEventIDToCancellationID, initiatedeventID)

handleExternalWorkflowExecutionCancelRequested(h, initiatedeventID, workflowID) ==
    IF ~IsExternal(h, initiatedeventID)
      THEN getDecision(h, makeDecisionID(decisionTypeChildWorkflow, workflowID))
      ELSE Then(getDecision(h, makeDecisionID(decisionTypeCancellation,
                                 h.scheduledEventIDToCancellationID[initiatedeventID])),
                handleCompletionEvent)

handleRequestCancelExternalWorkflowExecutionFailed(h, initiatedeventID, workflowID) ==
    IF ~IsExternal(h, initiatedeventID)
      THEN Then(getDecision(h, makeDecisionID(decisionTypeChildWorkflow, workflowID)),
                handleCancelFailedEvent)
      ELSE Then(getDecision(h, makeDecisionID(decisionTypeCancellation,
                                 h.scheduledEventIDToCancellationID[initiatedeventID])),
                handleCompletionEvent)

signalExternalWorkflowExecution(h, workflowID, signalID) ==
    addDecision(h, newMachine(decisionTypeSignal, signalID,
                              Attr("SignalExternalWorkflowExecution", workflowID, <<signalID>>)))

upsertSearchAttributes(h, upsertID, searchAttr) ==
    addDecision(h, newMachine(decisionTypeUpsertSearchAttributes, upsertID,
                              Attr("UpsertWorkflowSearchAttributes", upsertID, searchAttr)))

handleSignalExternalWorkflowExecutionInitiated(h, initiatedEventID, signalID) ==
    LET h2 == [h EXCEPT !.scheduledEventIDToSignalID = MapSet(@, initiatedEventID, signalID)]
    IN  Then(getDecision(h2, makeDecisionID(decisionTypeSignal, signalID)), handleInitiatedEvent)

getSignalID(h, initiatedEventID) ==
    IF MapHas(h.scheduledEventIDToSignalID, initiatedEventID)
      THEN [id |-> h.scheduledEventIDToSignalID[initiatedEventID], panic |-> NoPanic]
      ELSE [id |-> "", panic |-> PanicNoSignalID]

handleSignalExternalWorkflowExecutionCompleted(h, initiatedEventID) ==
    LET With_s(s) ==
            IF s.panic # NoPanic
              THEN Ret(h, NoMachine, s.panic)
              ELSE Then(getDecision(h, makeDecisionID(decisionTypeSignal, s.id)), handleCompletionEvent)
    IN  With_s(getSignalID(h, initiatedEventID))

handleSignalExternalWorkflowExecutionFailed(h, initiatedEventID) ==
    handleSignalExternalWorkflowExecutionCompleted(h, initiatedEventID)

startTimer(h, timerID) ==
    addDecision(h, newMachine(decisionTypeTimer, timerID, Attr("StartTimer", timerID, <<>>)))

cancelTimer_inPlace(h, timerID) ==
    Then(getDecision_noMove(h, makeDecisionID(decisionTypeTimer, timerID)), cancel)

cancelTimer_onlyLooksUp(h, timerID) ==
    getDecision(h, makeDecisionID(decisionTypeTimer, timerID))

cancelTimer(h, timerID) ==
    Then(getDecision(h, makeDecisionID(decisionTypeTimer, timerID)), cancel)

handleTimerClosed(h, timerID) ==
    Then(getDecision(h, makeDecisionID(decisionTypeTimer, timerID)), handleCompletionEvent)

handleTimerStarted_unchecked(h, timerID) ==
    IF InMap(h, makeDecisionID(decisionTypeTimer, timerID))
      THEN Then(getDecision(h, makeDecisionID(decisionTypeTimer, timerID)), handleInitiatedEvent)
      ELSE Ret(h, NoMachine, NoPanic)

handleTimerStarted(h, timerID) ==
    Then(getDecision(h, makeDecisionID(decisionTypeTimer, timerID)), handleInitiatedEvent)

handleTimerCanceled(h, timerID) ==
    Then(getDecision(h, makeDecisionID(decisionTypeTimer, timerID)), handleCanceledEvent)

handleCancelTimerFailed(h, timerID) ==
    Then(getDecision(h, makeDecisionID(decisionTypeTimer, timerID)), handleCancelFailedEvent)

handleChildWorkflowExecutionStarted(h, workflowID) ==
    Then(getDecision(h, makeDecisionID(decisionTypeChildWorkflow, workflowID)), handleStartedEvent)

handleChildWorkflowExecutionClosed(h, workflowID) ==
    Then(getDecision(h, makeDecisionID(decisionTypeChildWorkflow, workflowID)), handleCompletionEvent)

handleChildWorkflowExecutionCanceled(h, workflowID) ==
    Then(getDecision(h, makeDecisionID(decisionTypeChildWorkflow, workflowID)), handleCanceledEvent)

\* one round of the loop of getDecisions over the machines the list held at
\* the call; a machine changes only when its own turn comes
RECURSIVE getDecisionsLoop(_, _, _, _, _)
getDecisionsLoop(h, snapshot, i, markAsSent, result) ==
    IF i > Len(snapshot)
      THEN [h |-> h, result |-> result]
      ELSE LET d == snapshot[i]
           IN  LET With_r(r) ==
                       LET With_h2(h2) ==
                               getDecisionsLoop(h2, snapshot, i + 1, markAsSent, result \o getDecision_of(d))
                       IN  With_h2(IF r.d.state = decisionStateCompleted THEN RemoveMachine(r.h, d.id) ELSE r.h)
               IN  With_r(IF markAsSent THEN handleDecisionSent(h, d) ELSE Ret(h, d, NoPanic))

getDecisions(h, markAsSent) ==
    getDecisionsLoop(h, h.orderedDecisions, 1, markAsSent, <<>>)


\* ------------------------------------------------------- data conversion
\* payloads ([]byte) are sequences of strings: DataConverter.ToData writes the
\* encoding's header followed by the values in order, FromData reads them back
encodeArgs(args) == <<"json">> \o args

decodeArgs(data) == Tail(data)

Sprint(v) == ToString(v)

\* the integer a decimal string stands for
ParseInt(str) == CHOOSE n \in -1..(MaxCounter + MaxTime + MaxEventID + 2) : ToString(n) = str

\* json.Marshal of a search attribute value
Marshal(v) == <<"json">> \o v

\* ------------------------------------------------------------ environment
\* workflowEnvironmentImpl after newWorkflowExecutionEventHandler
newWorkflowExecutionEventHandler ==
    [decisionsHelper |-> newDecisionsHelper,
     sideEffectResult |-> <<>>,
     mutableSideEffect |-> <<>>,
     changeVersions |-> <<>>,
     pendingLaTasks |-> {},
     searchAttributes |-> <<>>,
     counterID |-> 0,
     currentReplayTime |-> 0,
     isReplay |-> FALSE,
     workflowDefinition |-> "nil",
     completeCalls |-> <<>>]

\* the result of a call on the environment: the environment after the call,
\* the machine the call worked on, the panic raised, the value returned (or
\* passed to the callback) and whether the user function ran
EnvRet(wc, d, panic, ret, ran) ==
    [wc |-> wc, d |-> d, panic |-> panic, ret |-> ret, ran |-> ran]

WithHelper(wc, h) == [wc EXCEPT !.decisionsHelper = h]

\* scheduledTimer.handle, scheduledActivity.handle, scheduledChildWorkflow.handle,
\* scheduledCancellation.handle, scheduledSignal.handle
handle_noFlag(data, result) ==
    IF data.handled
      THEN [data |-> data, panic |-> PanicAlreadyHandled]
      ELSE [data |-> [data EXCEPT !.calls = @ + 1, !.result = result],
            panic |-> NoPanic]

handle(data, result) ==
    IF data.handled
      THEN [data |-> data, panic |-> PanicAlreadyHandled]
      ELSE [data |-> [data EXCEPT !.handled = TRUE, !.calls = @ + 1, !.result = result],
            panic |-> NoPanic]

\* decision.getData().handle(result) on the machine r.d of a helper result
HandleOn(wc, r, result) ==
    LET With_hd(hd) ==
            LET With_s(s) ==
                    EnvRet(WithHelper(wc, s.h), s.d, hd.panic, result, FALSE)
            IN  With_s(setData(r.h, r.d, hd.data))
    IN  With_hd(handle(r.d.data, result))

Complete(wc, result) == [wc EXCEPT !.completeCalls = Append(@, result)]

GenerateSequence(wc) ==
    [wc |-> [wc EXCEPT !.counterID = @ + 1], result |-> wc.counterID]

GenerateSequenceID(wc) ==
    LET g == GenerateSequence(wc) IN [wc |-> g.wc, result |-> Sprintf(g.result)]

RequestCancelChildWorkflow(wc, workflowID) ==
    LET With_r(r) ==
            EnvRet(WithHelper(wc, r.h), r.d, r.panic, "none", FALSE)
    IN  With_r(requestCancelExternalWorkflowExecution(wc.decisionsHelper, workflowID, "", "", TRUE))

\* add a machine and attach its waiter
AddWithWaiter(wc, r, kind, wait) ==
    IF r.panic # NoPanic
      THEN EnvRet(WithHelper(wc, r.h), r.d, r.panic, "none", FALSE)
      ELSE LET With_s(s) ==
                   EnvRet(WithHelper(wc, s.h), s.d, NoPanic, r.d.id.id, FALSE)
           IN  With_s(setData(r.h, r.d, NewWaiter(kind, wait)))

RequestCancelExternalWorkflow(wc, workflowID, runID) ==
    LET With_g(g) ==
            LET With_r(r) ==
                    AddWithWaiter(g.wc, r, "scheduledCancellation", FALSE)
            IN  With_r(requestCancelExternalWorkflowExecution(g.wc.decisionsHelper, workflowID, runID,
                                                              g.result, FALSE))
    IN  With_g(GenerateSequenceID(wc))

SignalExternalWorkflow(wc, workflowID) ==
    LET With_g(g) ==
            LET With_r(r) ==
                    AddWithWaiter(g.wc, r, "scheduledSignal", FALSE)
            IN  With_r(signalExternalWorkflowExecution(g.wc.decisionsHelper, workflowID, g.result))
    IN  With_g(GenerateSequenceID(wc))

\* attributes is a map from keys to values; serializeSearchAttributes
serializeSearchAttributes(attributes) ==
    [k \in DOMAIN attributes |-> Marshal(attributes[k])]

validateAndSerializeSearchAttributes_lenient(attributes) ==
    [attr |-> serializeSearchAttributes(attributes), err |-> "nil"]

validateAndSerializeSearchAttributes(attributes) ==
    IF DOMAIN attributes = {}
      THEN [attr |-> <<>>, err |-> "search attributes is empty"]
      ELSE [attr |-> serializeSearchAttributes(attributes), err |-> "nil"]

mergeSearchAttributes(current, upsert) == upsert @@ current

updateWorkflowInfoWithSearchAttributes(wc, attributes) ==
    [wc EXCEPT !.searchAttributes = mergeSearchAttributes(@, attributes)]

\* the search attributes as the payload of an upsert decision
AttrPayload(attr) ==
    IF CadenceChangeVersion \in DOMAIN attr THEN attr[CadenceChangeVersion] ELSE <<"json", "key">>

UpsertSearchAttributes_alwaysSequence(wc, attributes) ==
    LET With_v(v) ==
            IF v.err # "nil"
              THEN EnvRet(wc, NoMachine, NoPanic, v.err, FALSE)
              ELSE LET With_g(g) ==
                           LET With_r(r) ==
                                   IF r.panic # NoPanic
                                     THEN EnvRet(WithHelper(g.wc, r.h), r.d, r.panic, "none", FALSE)
                                     ELSE EnvRet(updateWorkflowInfoWithSearchAttributes(WithHelper(g.wc, r.h), v.attr),
                                                 r.d, NoPanic, "nil", FALSE)
                           IN  With_r(upsertSearchAttributes(g.wc.decisionsHelper, g.result, AttrPayload(v.attr)))
                   IN  With_g(GenerateSequenceID(wc))
    IN  With_v(validateAndSerializeSearchAttributes(attributes))

UpsertSearchAttributes(wc, attributes) ==
    LET With_v(v) ==
            IF v.err # "nil"
              THEN EnvRet(wc, NoMachine, NoPanic, v.err, FALSE)
              ELSE LET With_g(g) ==
                           LET With_r(r) ==
                                   IF r.panic # NoPanic
                                     THEN EnvRet(WithHelper(g.wc, r.h), r.d, r.panic, "none", FALSE)
                                     ELSE EnvRet(updateWorkflowInfoWithSearchAttributes(WithHelper(g.wc, r.h), v.attr),
                                                 r.d, NoPanic, "nil", FALSE)
                           IN  With_r(upsertSearchAttributes(g.wc.decisionsHelper, g.result, AttrPayload(v.attr)))
                   IN  With_g(IF CadenceChangeVersion \in DOMAIN attributes
                                THEN [wc |-> wc, result |-> attributes[CadenceChangeVersion][1]]
                                ELSE GenerateSequenceID(wc))
    IN  With_v(validateAndSerializeSearchAttributes(attributes))

\* workflowID "" asks for a generated id: RunID + "_" + sequence
ExecuteChildWorkflow(wc, workflowID, waitForCancellation) ==
    LET With_g(g) ==
            LET With_r(r) ==
                    AddWithWaiter(g.wc, r, "scheduledChildWorkflow", waitForCancellation)
            IN  With_r(startChildWorkflowExecution(g.wc.decisionsHelper, g.result))
    IN  With_g(IF workflowID = ""
                 THEN LET q == GenerateSequenceID(wc) IN [wc |-> q.wc, result |-> "run_" \o q.result]
                 ELSE [wc |-> wc, result |-> workflowID])

\* activityID "" asks for a generated id
ExecuteActivity(wc, activityID, waitForCancellation) ==
    LET With_g(g) ==
            LET With_r(r) ==
                    AddWithWaiter(g.wc, r, "scheduledActivity", waitForCancellation)
            IN  With_r(scheduleActivityTask(g.wc.decisionsHelper, g.result))
    IN  With_g(IF activityID = "" THEN GenerateSequenceID(wc) ELSE [wc |-> wc, result |-> activityID])

RequestCancelActivity_alwaysWaits(wc, activityID) ==
    LET With_r(r) ==
            CASE r.panic # NoPanic -> EnvRet(WithHelper(wc, r.h), r.d, r.panic, "none", FALSE)
              [] r.d.data.handled -> EnvRet(WithHelper(wc, r.h), r.d, NoPanic, "none", FALSE)
              [] isDone(r.d) -> HandleOn(wc, r, "Canceled")
              [] OTHER -> EnvRet(WithHelper(wc, r.h), r.d, NoPanic, "none", FALSE)
    IN  With_r(requestCancelActivityTask(wc.decisionsHelper, activityID))

RequestCancelActivity_ignoresWait(wc, activityID) ==
    LET With_r(r) ==
            CASE r.panic # NoPanic -> EnvRet(WithHelper(wc, r.h), r.d, r.panic, "none", FALSE)
              [] r.d.data.handled -> EnvRet(WithHelper(wc, r.h), r.d, NoPanic, "none", FALSE)
              [] OTHER -> HandleOn(wc, r, "Canceled")
    IN  With_r(requestCancelActivityTask(wc.decisionsHelper, activityID))

RequestCancelActivity(wc, activityID) ==
    LET With_r(r) ==
            CASE r.panic # NoPanic -> EnvRet(WithHelper(wc, r.h), r.d, r.panic, "none", FALSE)
              [] r.d.data.handled -> EnvRet(WithHelper(wc, r.h), r.d, NoPanic, "none", FALSE)
              [] isDone(r.d) \/ ~r.d.data.waitForCancelRequest -> HandleOn(wc, r, "Canceled")
              [] OTHER -> EnvRet(WithHelper(wc, r.h), r.d, NoPanic, "none", FALSE)
    IN  With_r(requestCancelActivityTask(wc.decisionsHelper, activityID))

ExecuteLocalActivity(wc) ==
    LET With_g(g) ==
            EnvRet([g.wc EXCEPT !.pendingLaTasks = @ \cup {g.result}], NoMachine, NoPanic, g.result, FALSE)
    IN  With_g(GenerateSequenceID(wc))

SetCurrentReplayTime_ignored(wc, replayTime) == wc

SetCurrentReplayTime_unguarded(wc, replayTime) ==
    [wc EXCEPT !.currentReplayTime = replayTime]

SetCurrentReplayTime(wc, replayTime) ==
    IF replayTime < wc.currentReplayTime
      THEN wc
      ELSE [wc EXCEPT !.currentReplayTime = replayTime]

Now(wc) == wc.currentReplayTime

\* d < 0 and d = 0 invoke the callback at once and create nothing
NewTimer_startsZero(wc, d) ==
    CASE d < 0 -> EnvRet(wc, NoMachine, NoPanic, "callback:negative duration", FALSE)
      [] OTHER ->
           LET With_g(g) ==
                   LET With_r(r) ==
                           AddWithWaiter(g.wc, r, "scheduledTimer", FALSE)
                   IN  With_r(startTimer(g.wc.decisionsHelper, g.result))
           IN  With_g(GenerateSequenceID(wc))

NewTimer(wc, d) ==
    CASE d < 0 -> EnvRet(wc, NoMachine, NoPanic, "callback:negative duration", FALSE)
      [] d = 0 -> EnvRet(wc, NoMachine, NoPanic, "callback:nil", FALSE)
      [] OTHER ->
           LET With_g(g) ==
                   LET With_r(r) ==
                           AddWithWaiter(g.wc, r, "scheduledTimer", FALSE)
                   IN  With_r(startTimer(g.wc.decisionsHelper, g.result))
           IN  With_g(GenerateSequenceID(wc))

RequestCancelTimer(wc, timerID) ==
    LET With_r(r) ==
            CASE r.panic # NoPanic -> EnvRet(WithHelper(wc, r.h), r.d, r.panic, "none", FALSE)
              [] r.d.data.handled -> EnvRet(WithHelper(wc, r.h), r.d, NoPanic, "none", FALSE)
              [] OTHER -> HandleOn(wc, r, "Canceled")
    IN  With_r(cancelTimer(wc.decisionsHelper, timerID))

validateVersion_lowerOnly(version, minSupported, maxSupported) ==
    IF version < minSupported THEN PanicVersion ELSE NoPanic

\* the panic of validateVersion
validateVersion(version, minSupported, maxSupported) ==
    IF version < minSupported \/ version > maxSupported THEN PanicVersion ELSE NoPanic

getChangeVersion(changeID, version) == changeID \o "-" \o Sprint(version)

\* the existing versions follow in map order; with at most one other change id
\* recorded the order is fixed
RECURSIVE MapValues(_, _)
MapValues(m, keys) ==
    IF keys = {} THEN <<>>
    ELSE LET k == CHOOSE x \in keys : TRUE
         IN  <<getChangeVersion(k, m[k])>> \o MapValues(m, keys \ {k})

getChangeVersions(changeID, version, existingChangeVersions) ==
    <<getChangeVersion(changeID, version)>> \o
        MapValues(existingChangeVersions, DOMAIN existingChangeVersions)

createSearchAttributesForChangeVersion(changeID, version, existingChangeVersions) ==
    (CadenceChangeVersion :> getChangeVersions(changeID, version, existingChangeVersions))

GetVersion(wc, changeID, minSupported, maxSupported) ==
    IF MapHas(wc.changeVersions, changeID)
      THEN LET version == wc.changeVersions[changeID]
           IN  EnvRet(wc, NoMachine, validateVersion(version, minSupported, maxSupported),
                      version, FALSE)
      ELSE IF wc.isReplay
             THEN LET With_p(p) ==
                          EnvRet(IF p = NoPanic
                                   THEN [wc EXCEPT !.changeVersions = MapSet(@, changeID, DefaultVersion)]
                                   ELSE wc,
                                 NoMachine, p, DefaultVersion, FALSE)
                  IN  With_p(validateVersion(DefaultVersion, minSupported, maxSupported))
             ELSE LET version == maxSupported
                  IN  LET With_r(r) ==
                              IF r.panic # NoPanic
                                THEN EnvRet(WithHelper(wc, r.h), r.d, r.panic, version, FALSE)
                                ELSE LET With_u(u) ==
                                             LET With_p(p) ==
                                                     CASE u.panic # NoPanic -> EnvRet(u.wc, r.d, u.panic, version, FALSE)
                                                       [] p # NoPanic -> EnvRet(u.wc, r.d, p, version, FALSE)
                                                       [] OTHER ->
                                                            EnvRet([u.wc EXCEPT !.changeVersions =
                                                                       MapSet(@, changeID, version)],
                                                                   r.d, NoPanic, version, FALSE)
                                             IN  With_p(validateVersion(version, minSupported, maxSupported))
                                     IN  With_u(UpsertSearchAttributes(WithHelper(wc, r.h),
                                                    createSearchAttributesForChangeVersion(
                                                        changeID, version, wc.changeVersions)))
                      IN  With_r(recordVersionMarker(wc.decisionsHelper, changeID,
                                                     encodeArgs(<<changeID, Sprint(version)>>)))

\* f is the user function: fResult its value, fErr whether it fails
SideEffect_runsInReplay(wc, fResult, fErr) ==
    LET With_g(g) ==
            LET sideEffectID == g.result
            IN  IF fErr
                  THEN EnvRet(g.wc, NoMachine, NoPanic, <<"callback:error">>, TRUE)
                  ELSE LET With_r(r) ==
                               EnvRet(WithHelper(g.wc, r.h), r.d, r.panic, fResult, TRUE)
                       IN  With_r(recordSideEffectMarker(g.wc.decisionsHelper, sideEffectID,
                                      encodeArgs(<<Sprintf(sideEffectID)>> \o fResult)))
    IN  With_g(GenerateSequence(wc))

SideEffect(wc, fResult, fErr) ==
    LET With_g(g) ==
            LET sideEffectID == g.result
            IN  IF wc.isReplay
                  THEN IF ~MapHas(wc.sideEffectResult, sideEffectID)
                         THEN EnvRet(g.wc, NoMachine, PanicNoSideEffect, <<"none">>, FALSE)
                         ELSE LET result == wc.sideEffectResult[sideEffectID]
                              IN  LET With_r(r) ==
                                          EnvRet(WithHelper(g.wc, r.h), r.d, r.panic, result, FALSE)
                                  IN  With_r(recordSideEffectMarker(g.wc.decisionsHelper, sideEffectID, result))
                  ELSE IF fErr
                         THEN EnvRet(g.wc, NoMachine, NoPanic, <<"callback:error">>, TRUE)
                         ELSE LET With_r(r) ==
                                      EnvRet(WithHelper(g.wc, r.h), r.d, r.panic, fResult, TRUE)
                              IN  With_r(recordSideEffectMarker(g.wc.decisionsHelper, sideEffectID,
                                             encodeArgs(<<Sprintf(sideEffectID)>> \o fResult)))
    IN  With_g(GenerateSequence(wc))

\* encodeValue: the payload of one value; the nil value encodes as "null"
encodeValue(value) == IF value = "nil" THEN <<"null">> ELSE <<value>>

\* decodeValue into the type of the new value: "null" decodes to the zero value
decodeValue(encodedValue) == IF encodedValue = <<"null">> THEN "" ELSE encodedValue[1]

\* equals is the natural equality of the user's values
isEqualValue(newValue, encodedOldValue) ==
    IF newValue = "nil"
      THEN encodeValue("nil") = encodedOldValue
      ELSE newValue = decodeValue(encodedOldValue)

recordMutableSideEffect(wc, id, data) ==
    LET With_r(r) ==
            IF r.panic # NoPanic
              THEN EnvRet(WithHelper(wc, r.h), r.d, r.panic, <<"none">>, TRUE)
              ELSE EnvRet([WithHelper(wc, r.h) EXCEPT !.mutableSideEffect = MapSet(@, id, data)],
                          r.d, NoPanic, data, TRUE)
    IN  With_r(recordMutableSideEffectMarker(wc.decisionsHelper, id, encodeArgs(<<id>> \o data)))

MutableSideEffect_runsInReplay(wc, id, fValue) ==
    IF MapHas(wc.mutableSideEffect, id)
      THEN LET result == wc.mutableSideEffect[id]
           IN  IF isEqualValue(fValue, result)
                 THEN EnvRet(wc, NoMachine, NoPanic, result, TRUE)
                 ELSE recordMutableSideEffect(wc, id, encodeValue(fValue))
      ELSE recordMutableSideEffect(wc, id, encodeValue(fValue))

MutableSideEffect(wc, id, fValue) ==
    IF MapHas(wc.mutableSideEffect, id)
      THEN LET result == wc.mutableSideEffect[id]
           IN  CASE wc.isReplay -> EnvRet(wc, NoMachine, NoPanic, result, FALSE)
                 [] isEqualValue(fValue, result) -> EnvRet(wc, NoMachine, NoPanic, result, TRUE)
                 [] OTHER -> recordMutableSideEffect(wc, id, encodeValue(fValue))
      ELSE IF wc.isReplay
             THEN EnvRet(wc, NoMachine, PanicNoMutableSideEffect, <<"none">>, FALSE)
             ELSE recordMutableSideEffect(wc, id, encodeValue(fValue))


\* ------------------------------------------------------------ ProcessEvent
\* a history event: its type, id, timestamp, the id it names (activity id,
\* timer id, workflow id or control), the event id it refers to (scheduled or
\* initiated event id), and for a marker its name and details
Event(type, eventID, time, id, ref, marker, details) ==
    [type |-> type, eventID |-> eventID, time |-> time, id |-> id, ref |-> ref,
     marker |-> marker, details |-> details]

\* the result of handling an event: the environment after it, the machine it
\* worked on, the panic raised, the error returned and the number of calls of
\* OnDecisionTaskStarted
EvRet(wc, d, panic, err, ticks) ==
    [wc |-> wc, d |-> d, panic |-> panic, err |-> err, ticks |-> ticks]

FromHelper(wc, r) == EvRet(WithHelper(wc, r.h), r.d, r.panic, "nil", 0)

HandleUnlessHandled_unchecked(wc, r, result) ==
    CASE r.panic # NoPanic -> FromHelper(wc, r)
      [] OTHER -> LET e == HandleOn(wc, r, result) IN EvRet(e.wc, e.d, e.panic, "nil", 0)

\* "if waiter.handled return nil; waiter.handle(result)" on the machine of r
HandleUnlessHandled(wc, r, result) ==
    CASE r.panic # NoPanic -> FromHelper(wc, r)
      [] r.d.data.handled -> FromHelper(wc, r)
      [] OTHER -> LET e == HandleOn(wc, r, result) IN EvRet(e.wc, e.d, e.panic, "nil", 0)

\* workflowDefinition.OnDecisionTaskStarted(): user code runs and may panic;
\* without a definition the call is a nil dereference
OnDecisionTaskStarted(wc, userPanic) ==
    CASE wc.workflowDefinition = "nil" -> PanicNilDefinition
      [] userPanic -> PanicUserCode
      [] OTHER -> NoPanic

handleWorkflowExecutionStarted(wc, registered) ==
    IF ~registered
      THEN EvRet(wc, NoMachine, NoPanic, "unable to find workflow type", 0)
      ELSE EvRet([wc EXCEPT !.workflowDefinition = "workflow"], NoMachine, NoPanic, "nil", 0)

\* handleActivityTaskCompleted, handleActivityTaskFailed, handleActivityTaskTimedOut
handleActivityTaskClosedEvent(wc, event, result) ==
    LET With_a(a) ==
            IF a.panic # NoPanic
              THEN EvRet(wc, NoMachine, a.panic, "nil", 0)
              ELSE HandleUnlessHandled(wc, handleActivityTaskClosed(wc.decisionsHelper, a.id), result)
    IN  With_a(getActivityID(wc.decisionsHelper, event.ref))

handleActivityTaskCompleted(wc, event) == handleActivityTaskClosedEvent(wc, event, "Completed")

handleActivityTaskFailed(wc, event) == handleActivityTaskClosedEvent(wc, event, "Failed")

handleActivityTaskTimedOut(wc, event) == handleActivityTaskClosedEvent(wc, event, "TimedOut")

handleActivityTaskCanceledEvent(wc, event) ==
    LET With_a(a) ==
            LET With_r(r) ==
                    CASE a.panic # NoPanic -> EvRet(wc, NoMachine, a.panic, "nil", 0)
                      [] r.panic # NoPanic -> FromHelper(wc, r)
                      [] r.d.data.handled -> FromHelper(wc, r)
                      [] isDone(r.d) \/ ~r.d.data.waitForCancelRequest -> HandleUnlessHandled(wc, r, "Canceled")
                      [] OTHER -> FromHelper(wc, r)
            IN  With_r(handleActivityTaskCanceled(wc.decisionsHelper, a.id))
    IN  With_a(getActivityID(wc.decisionsHelper, event.ref))

handleTimerFired(wc, event) ==
    HandleUnlessHandled(wc, handleTimerClosed(wc.decisionsHelper, event.id), "Fired")

\* childWorkflow.startedCallback; its invocations are counted up to
\* MaxStartedCalls
startedCallback(wc, r) ==
    LET With_s(s) ==
            Ret(s.h, s.d, NoPanic)
    IN  With_s(setData(r.h, r.d, [r.d.data EXCEPT !.startedCalls =
                                                     IF @ < MaxStartedCalls THEN @ + 1 ELSE @]))

handleStartChildWorkflowExecutionFailedEvent(wc, event) ==
    LET With_r(r) ==
            CASE r.panic # NoPanic -> FromHelper(wc, r)
              [] r.d.data.handled -> FromHelper(wc, r)
              [] OTHER -> HandleUnlessHandled(wc, startedCallback(wc, r), "AlreadyStarted")
    IN  With_r(handleStartChildWorkflowExecutionFailed(wc.decisionsHelper, event.id))

handleChildWorkflowExecutionStartedEvent(wc, event) ==
    LET With_r(r) ==
            CASE r.panic # NoPanic -> FromHelper(wc, r)
              [] r.d.data.handled -> FromHelper(wc, r)
              [] OTHER -> FromHelper(wc, startedCallback(wc, r))
    IN  With_r(handleChildWorkflowExecutionStarted(wc.decisionsHelper, event.id))

\* handleChildWorkflowExecutionCompleted, ...Failed, ...TimedOut, ...Terminated
handleChildWorkflowExecutionClosedEvent(wc, event, result) ==
    HandleUnlessHandled(wc, handleChildWorkflowExecutionClosed(wc.decisionsHelper, event.id), result)

handleChildWorkflowExecutionCanceledEvent(wc, event) ==
    HandleUnlessHandled(wc, handleChildWorkflowExecutionCanceled(wc.decisionsHelper, event.id),
                        "Canceled")

handleUpsertWorkflowSearchAttributes(wc, event) ==
    EvRet(updateWorkflowInfoWithSearchAttributes(wc, ("key" :> event.details)),
          NoMachine, NoPanic, "nil", 0)

handleRequestCancelExternalWorkflowExecutionInitiatedEvent(wc, event) ==
    FromHelper(wc, handleRequestCancelExternalWorkflowExecutionInitiated(
                       wc.decisionsHelper, event.eventID, event.id, event.marker))

handleExternalWorkflowExecutionCancelRequestedEvent(wc, event) ==
    LET With_r(r) ==
            IF IsExternal(wc.decisionsHelper, event.ref)
              THEN HandleUnlessHandled(wc, r, "CancelRequested")
              ELSE FromHelper(wc, r)
    IN  With_r(handleExternalWorkflowExecutionCancelRequested(wc.decisionsHelper, event.ref, event.id))

handleRequestCancelExternalWorkflowExecutionFailedEvent(wc, event) ==
    LET With_r(r) ==
            IF IsExternal(wc.decisionsHelper, event.ref)
              THEN HandleUnlessHandled(wc, r, "CancelFailed")
              ELSE FromHelper(wc, r)
    IN  With_r(handleRequestCancelExternalWorkflowExecutionFailed(wc.decisionsHelper, event.ref, event.id))

handleSignalExternalWorkflowExecutionCompletedEvent(wc, event) ==
    HandleUnlessHandled(wc, handleSignalExternalWorkflowExecutionCompleted(wc.decisionsHelper, event.ref),
                        "Signaled")

handleSignalExternalWorkflowExecutionFailedEvent(wc, event) ==
    HandleUnlessHandled(wc, handleSignalExternalWorkflowExecutionFailed(wc.decisionsHelper, event.ref),
                        "SignalFailed")

\* the marker data names the activity id, the replay time and the activity
\* type; the local activities of the workflow code have type "la"
handleLocalActivityMarker(wc, markerData, userPanic) ==
    LET activityID == decodeArgs(markerData)[1]
    IN  LET With_replayTime(replayTime) ==
                LET activityType == decodeArgs(markerData)[3]
                IN  IF activityID \notin wc.pendingLaTasks
                      THEN EvRet(wc, NoMachine, NoPanic, "nil", 0)
                      ELSE IF activityType # "" /\ activityType # "la"
                             THEN EvRet(wc, NoMachine, PanicLocalActivityMismatch, "nil", 0)
                             ELSE LET With_r(r) ==
                                          LET With_wc2(wc2) ==
                                                  IF r.panic # NoPanic
                                                    THEN FromHelper(wc, r)
                                                    ELSE EvRet(SetCurrentReplayTime(wc2, replayTime), r.d,
                                                               OnDecisionTaskStarted(wc2, userPanic), "nil", 1)
                                          IN  With_wc2([WithHelper(wc, r.h) EXCEPT !.pendingLaTasks = @ \ {activityID}])
                                  IN  With_r(recordLocalActivityMarker(wc.decisionsHelper, activityID, markerData))
        IN  With_replayTime(ParseInt(decodeArgs(markerData)[2]))

handleMarkerRecorded_dropsVersion(wc, event, userPanic) ==
    CASE event.marker = sideEffectMarkerName ->
           EvRet([wc EXCEPT !.sideEffectResult =
                      MapSet(@, ParseInt(decodeArgs(event.details)[1]), Tail(decodeArgs(event.details)))],
                 NoMachine, NoPanic, "nil", 0)
      [] event.marker = localActivityMarkerName ->
           handleLocalActivityMarker(wc, event.details, userPanic)
      [] event.marker = mutableSideEffectMarkerName ->
           EvRet([wc EXCEPT !.mutableSideEffect = MapSet(@, decodeArgs(event.details)[1], Tail(decodeArgs(event.details)))],
                 NoMachine, NoPanic, "nil", 0)
      [] OTHER -> EvRet(wc, NoMachine, NoPanic, "nil", 0)

handleMarkerRecorded(wc, event, userPanic) ==
    CASE event.marker = sideEffectMarkerName ->
           EvRet([wc EXCEPT !.sideEffectResult =
                      MapSet(@, ParseInt(decodeArgs(event.details)[1]), Tail(decodeArgs(event.details)))],
                 NoMachine, NoPanic, "nil", 0)
      [] event.marker = versionMarkerName ->
           EvRet([wc EXCEPT !.changeVersions =
                      MapSet(@, decodeArgs(event.details)[1], ParseInt(decodeArgs(event.details)[2]))],
                 NoMachine, NoPanic, "nil", 0)
      [] event.marker = localActivityMarkerName ->
           handleLocalActivityMarker(wc, event.details, userPanic)
      [] event.marker = mutableSideEffectMarkerName ->
           EvRet([wc EXCEPT !.mutableSideEffect = MapSet(@, decodeArgs(event.details)[1], Tail(decodeArgs(event.details)))],
                 NoMachine, NoPanic, "nil", 0)
      [] OTHER -> EvRet(wc, NoMachine, NoPanic, "unknown marker name", 0)


\* the events whose case of the switch reads "No Operation"
NoOperationEvents ==
    {"WorkflowExecutionCompleted", "WorkflowExecutionFailed", "WorkflowExecutionTimedOut",
     "DecisionTaskScheduled", "DecisionTaskTimedOut", "DecisionTaskFailed",
     "DecisionTaskCompleted", "ActivityTaskStarted", "WorkflowExecutionCanceled",
     "WorkflowExecutionContinuedAsNew"}

unknownEventType_fails(wc, event) == EvRet(wc, NoMachine, NoPanic, "unknown event type", 0)

\* the default case of the switch: the event is logged and nothing fails
unknownEventType(wc, event) == EvRet(wc, NoMachine, NoPanic, "nil", 0)

\* the switch of ProcessEvent on the event's attributes
ProcessEventSwitch(wc, event, userPanic, registered) ==
    LET h == wc.decisionsHelper
    IN  CASE event.type = "WorkflowExecutionStarted" -> handleWorkflowExecutionStarted(wc, registered)
          [] event.type \in NoOperationEvents -> EvRet(wc, NoMachine, NoPanic, "nil", 0)
          [] event.type = "DecisionTaskStarted" ->
               LET With_wc2(wc2) ==
                       EvRet(wc2, NoMachine, OnDecisionTaskStarted(wc2, userPanic), "nil", 1)
               IN  With_wc2(SetCurrentReplayTime(wc, event.time))
          [] event.type = "ActivityTaskScheduled" ->
               FromHelper(wc, handleActivityTaskScheduled(h, event.eventID, event.id))
          [] event.type = "ActivityTaskCompleted" -> handleActivityTaskCompleted(wc, event)
          [] event.type = "ActivityTaskFailed" -> handleActivityTaskFailed(wc, event)
          [] event.type = "ActivityTaskTimedOut" -> handleActivityTaskTimedOut(wc, event)
          [] event.type = "ActivityTaskCancelRequested" ->
               FromHelper(wc, handleActivityTaskCancelRequested(h, event.id))
          [] event.type = "RequestCancelActivityTaskFailed" ->
               FromHelper(wc, handleRequestCancelActivityTaskFailed(h, event.id))
          [] event.type = "ActivityTaskCanceled" -> handleActivityTaskCanceledEvent(wc, event)
          [] event.type = "TimerStarted" -> FromHelper(wc, handleTimerStarted(h, event.id))
          [] event.type = "TimerFired" -> handleTimerFired(wc, event)
          [] event.type = "TimerCanceled" -> FromHelper(wc, handleTimerCanceled(h, event.id))
          [] event.type = "CancelTimerFailed" -> FromHelper(wc, handleCancelTimerFailed(h, event.id))
          [] event.type = "RequestCancelExternalWorkflowExecutionInitiated" ->
               handleRequestCancelExternalWorkflowExecutionInitiatedEvent(wc, event)
          [] event.type = "RequestCancelExternalWorkflowExecutionFailed" ->
               handleRequestCancelExternalWorkflowExecutionFailedEvent(wc, event)
          [] event.type = "ExternalWorkflowExecutionCancelRequested" ->
               handleExternalWorkflowExecutionCancelRequestedEvent(wc, event)
          [] event.type = "SignalExternalWorkflowExecutionInitiated" ->
               FromHelper(wc, handleSignalExternalWorkflowExecutionInitiated(h, event.eventID, event.id))
          [] event.type = "SignalExternalWorkflowExecutionFailed" ->
               handleSignalExternalWorkflowExecutionFailedEvent(wc, event)
          [] event.type = "ExternalWorkflowExecutionSignaled" ->
               handleSignalExternalWorkflowExecutionCompletedEvent(wc, event)
          [] event.type = "MarkerRecorded" -> handleMarkerRecorded(wc, event, userPanic)
          [] event.type = "StartChildWorkflowExecutionInitiated" ->
               FromHelper(wc, handleStartChildWorkflowExecutionInitiated(h, event.id))
          [] event.type = "StartChildWorkflowExecutionFailed" ->
               handleStartChildWorkflowExecutionFailedEvent(wc, event)
          [] event.type = "ChildWorkflowExecutionStarted" ->
               handleChildWorkflowExecutionStartedEvent(wc, event)
          [] event.type = "ChildWorkflowExecutionCompleted" ->
               handleChildWorkflowExecutionClosedEvent(wc, event, "Completed")
          [] event.type = "ChildWorkflowExecutionFailed" ->
               handleChildWorkflowExecutionClosedEvent(wc, event, "Failed")
          [] event.type = "ChildWorkflowExecutionTimedOut" ->
               handleChildWorkflowExecutionClosedEvent(wc, event, "TimedOut")
          [] event.type = "ChildWorkflowExecutionTerminated" ->
               handleChildWorkflowExecutionClosedEvent(wc, event, "Terminated")
          [] event.type = "ChildWorkflowExecutionCanceled" ->
               handleChildWorkflowExecutionCanceledEvent(wc, event)
          [] event.type = "UpsertWorkflowSearchAttributes" ->
               handleUpsertWorkflowSearchAttributes(wc, event)
          [] OTHER -> unknownEventType(wc, event)

ProcessEventBody_ticksEveryLast(wc, event, isReplay, isLast, userPanic, registered) ==
    LET With_r(r) ==
            CASE r.panic # NoPanic -> r
              [] r.err # "nil" -> r
              [] isLast ->
                   EvRet(r.wc, r.d, OnDecisionTaskStarted(r.wc, userPanic), "nil", r.ticks + 1)
              [] OTHER -> r
    IN  With_r(ProcessEventSwitch([wc EXCEPT !.isReplay = isReplay], event, userPanic, registered))

\* the body of ProcessEvent below its deferred recover
ProcessEventBody(wc, event, isReplay, isLast, userPanic, registered) ==
    LET With_r(r) ==
            CASE r.panic # NoPanic -> r
              [] r.err # "nil" -> r
              [] isLast /\ event.type # "DecisionTaskStarted" ->
                   EvRet(r.wc, r.d, OnDecisionTaskStarted(r.wc, userPanic), "nil", r.ticks + 1)
              [] OTHER -> r
    IN  With_r(ProcessEventSwitch([wc EXCEPT !.isReplay = isReplay], event, userPanic, registered))

\* the result of ProcessEvent: the environment after it, the error returned,
\* the panic that left the call, the panic recovered inside it, the machine
\* worked on and the number of calls of OnDecisionTaskStarted
PeRet(wc, d, err, propagated, recovered, ticks) ==
    [wc |-> wc, d |-> d, err |-> err, propagated |-> propagated,
     recovered |-> recovered, ticks |-> ticks]

newWorkflowPanicError(p) == <<"workflowPanicError", p>>

ProcessEvent_noRecover(wc, event, isReplay, isLast, userPanic, registered) ==
    IF event.type = "nil"
      THEN PeRet(wc, NoMachine, "nil event provided", NoPanic, NoPanic, 0)
      ELSE LET With_r(r) ==
                   PeRet(r.wc, r.d, r.err, r.panic, NoPanic, r.ticks)
           IN  With_r(ProcessEventBody(wc, event, isReplay, isLast, userPanic, registered))

ProcessEvent(wc, event, isReplay, isLast, userPanic, registered) ==
    IF event.type = "nil"
      THEN PeRet(wc, NoMachine, "nil event provided", NoPanic, NoPanic, 0)
      ELSE LET With_r(r) ==
                   IF r.panic # NoPanic
                     THEN PeRet(Complete(r.wc, newWorkflowPanicError(r.panic)), r.d, "nil",
                                NoPanic, r.panic, r.ticks)
                     ELSE PeRet(r.wc, r.d, r.err, NoPanic, NoPanic, r.ticks)
           IN  With_r(ProcessEventBody(wc, event, isReplay, isLast, userPanic, registered))


\* ------------------------------------------------------------ queries
queryResultSizeLimit == 2000000

QueryTypeStackTrace == "__stack_trace"

QueryTypeOpenSessions == "__open_sessions"

\* a byte slice: its length and what it holds; nil has length 0
Bytes(size, data) == [size |-> size, data |-> data]

NilBytes == Bytes(0, "nil")

len(bytes) == bytes.size

\* fmt.Errorf("query result size (%v) exceeds limit (%v)", ...)
errQueryResultSize(resultSize) ==
    "query result size (" \o Sprint(resultSize) \o ") exceeds limit ("
      \o Sprint(queryResultSizeLimit) \o ")"

\* internal is the encoded stack trace or session list, handled what the
\* registered query handler returns for the query
ProcessQuery_limitIncluded(wc, queryType, internal, handled) ==
    CASE queryType \in {QueryTypeStackTrace, QueryTypeOpenSessions} ->
           [result |-> internal, err |-> "nil"]
      [] handled.err # "nil" -> [result |-> NilBytes, err |-> handled.err]
      [] len(handled.result) >= queryResultSizeLimit ->
           [result |-> NilBytes, err |-> errQueryResultSize(len(handled.result))]
      [] OTHER -> [result |-> handled.result, err |-> "nil"]

ProcessQuery(wc, queryType, internal, handled) ==
    CASE queryType \in {QueryTypeStackTrace, QueryTypeOpenSessions} ->
           [result |-> internal, err |-> "nil"]
      [] handled.err # "nil" -> [result |-> NilBytes, err |-> handled.err]
      [] len(handled.result) > queryResultSizeLimit ->
           [result |-> NilBytes, err |-> errQueryResultSize(len(handled.result))]
      [] OTHER -> [result |-> handled.result, err |-> "nil"]

\* ------------------------------------------------------------ the program
\* wc is the workflow environment of a run and rp the environment of a replay
\* of the run; last and lastRp describe the operation each performed last
VARIABLES wc, rp, last, lastRp

vars == <<wc, rp, last, lastRp>>

\* what an operation leaves behind for its caller: whether it was a call of
\* the workflow code, an event or getDecisions; the machine it was for and the
\* state and callback count it left the machine with; the panic that left it,
\* the value returned or passed to the callback, whether the user function
\* ran, the error returned, the panic recovered inside ProcessEvent, the
\* number of calls of OnDecisionTaskStarted and the decisions returned; for a
\* clock event the time it carries, for NewTimer the duration asked for, for
\* GetVersion the supported range, for MutableSideEffect the value of f and
\* for UpsertSearchAttributes the number of attributes passed; for an event of
\* a decision task its type and whether it was the last of the task
NoOp ==
    [by |-> "none", op |-> "none", kind |-> "none", id |-> "", arg |-> "",
     type |-> "", isLast |-> FALSE,
     state |-> "none", calls |-> 0,
     panic |-> NoPanic, ret |-> <<>>, ran |-> FALSE, err |-> "nil", recovered |-> NoPanic,
     ticks |-> 0, decisions |-> <<>>]

Called(op, kind, id, r, ret) ==
    [NoOp EXCEPT !.by = "call", !.op = op, !.kind = kind, !.id = id, !.state = r.d.state,
                 !.calls = r.d.data.calls, !.panic = r.panic, !.ret = ret, !.ran = r.ran]

\* the ids of the machines of one kind in the collection
IDsOf(h, decisionType) ==
    {h.orderedDecisions[i].id.id : i \in {j \in 1..Len(h.orderedDecisions) :
                                           h.orderedDecisions[j].id.decisionType = decisionType}}

UnknownID == "zz"

\* the ids a workflow or a history may name: those in use and, with unknown,
\* one that is not
Named(h, decisionType, unknown) ==
    IDsOf(h, decisionType) \cup (IF unknown THEN {UnknownID} ELSE {})

\* the numbers of machines in the collection at which the workflow code opens
\* one more: it waits for each operation before the next, or keeps two
\* outstanding
Single == {0}

Pair == {0, 1}

\* workflow code runs once the workflow is started and until it fails
Alive(e, l) == l.panic = NoPanic /\ l.recovered = NoPanic

Running(e, l) == Alive(e, l) /\ e.workflowDefinition # "nil"

HasRoom(e, room) ==
    /\ Len(e.decisionsHelper.orderedDecisions) \in room
    /\ e.counterID < MaxCounter

Init ==
    /\ wc = newWorkflowExecutionEventHandler
    /\ rp = newWorkflowExecutionEventHandler
    /\ last = NoOp
    /\ lastRp = NoOp

\* ------------------------------------------------ operations of a run
\* the run takes a step; with twin, its replay takes the same step
Step(r, l, q, lq, twin) ==
    /\ wc' = r.wc
    /\ last' = l
    /\ IF twin THEN rp' = q.wc /\ lastRp' = lq ELSE UNCHANGED <<rp, lastRp>>

\* workflow code runs once the workflow has started and until a panic
Ready(twin) == Running(wc, last) /\ (twin => Running(rp, lastRp))

Created(op, kind, r) == Called(op, kind, r.d.id.id, r, <<r.ret>>)

Requested(op, kind, id, r) == Called(op, kind, id, r, <<r.ret>>)

DoExecuteActivity(room, ids, waits, twin) ==
    \E activityID \in ids, wait \in waits :
        /\ Ready(twin)
        /\ HasRoom(wc, room)
        /\ LET Outcome(r, q) ==
                   Step(r, Created("ExecuteActivity", decisionTypeActivity, r),
                        q, Created("ExecuteActivity", decisionTypeActivity, q), twin)
           IN  Outcome(ExecuteActivity(wc, activityID, wait), ExecuteActivity(rp, activityID, wait))

DoRequestCancelActivity(unknown, twin) ==
    \E activityID \in Named(wc.decisionsHelper, decisionTypeActivity, unknown) :
        /\ Ready(twin)
        /\ LET Outcome(r, q) ==
                   Step(r, Requested("RequestCancelActivity", decisionTypeActivity, activityID, r),
                        q, Requested("RequestCancelActivity", decisionTypeActivity, activityID, q), twin)
           IN  Outcome(RequestCancelActivity(wc, activityID), RequestCancelActivity(rp, activityID))

DoNewTimer(room, durations, twin) ==
    \E d \in durations :
        /\ Ready(twin)
        /\ HasRoom(wc, room)
        /\ LET Outcome(r, q) ==
                   Step(r, [Created("NewTimer", decisionTypeTimer, r) EXCEPT !.arg = Sprint(d)],
                        q, [Created("NewTimer", decisionTypeTimer, q) EXCEPT !.arg = Sprint(d)], twin)
           IN  Outcome(NewTimer(wc, d), NewTimer(rp, d))

DoRequestCancelTimer(unknown, twin) ==
    \E timerID \in Named(wc.decisionsHelper, decisionTypeTimer, unknown) :
        /\ Ready(twin)
        /\ LET Outcome(r, q) ==
                   Step(r, Requested("RequestCancelTimer", decisionTypeTimer, timerID, r),
                        q, Requested("RequestCancelTimer", decisionTypeTimer, timerID, q), twin)
           IN  Outcome(RequestCancelTimer(wc, timerID), RequestCancelTimer(rp, timerID))

DoExecuteChildWorkflow(room, twin) ==
    /\ Ready(twin)
    /\ HasRoom(wc, room)
    /\ LET Outcome(r, q) ==
               Step(r, Created("ExecuteChildWorkflow", decisionTypeChildWorkflow, r),
                    q, Created("ExecuteChildWorkflow", decisionTypeChildWorkflow, q), twin)
       IN  Outcome(ExecuteChildWorkflow(wc, "", FALSE), ExecuteChildWorkflow(rp, "", FALSE))

DoRequestCancelChildWorkflow(unknown, twin) ==
    \E workflowID \in Named(wc.decisionsHelper, decisionTypeChildWorkflow, unknown) :
        /\ Ready(twin)
        /\ LET Outcome(r, q) ==
                   Step(r, Requested("RequestCancelChildWorkflow", decisionTypeChildWorkflow,
                                     workflowID, r),
                        q, Requested("RequestCancelChildWorkflow", decisionTypeChildWorkflow,
                                     workflowID, q), twin)
           IN  Outcome(RequestCancelChildWorkflow(wc, workflowID),
                       RequestCancelChildWorkflow(rp, workflowID))

DoRequestCancelExternalWorkflow(room, twin) ==
    /\ Ready(twin)
    /\ HasRoom(wc, room)
    /\ LET Outcome(r, q) ==
               Step(r, Created("RequestCancelExternalWorkflow", decisionTypeCancellation, r),
                    q, Created("RequestCancelExternalWorkflow", decisionTypeCancellation, q), twin)
       IN  Outcome(RequestCancelExternalWorkflow(wc, "w", "r"),
                   RequestCancelExternalWorkflow(rp, "w", "r"))

DoSignalExternalWorkflow(room, twin) ==
    /\ Ready(twin)
    /\ HasRoom(wc, room)
    /\ LET Outcome(r, q) ==
               Step(r, Created("SignalExternalWorkflow", decisionTypeSignal, r),
                    q, Created("SignalExternalWorkflow", decisionTypeSignal, q), twin)
       IN  Outcome(SignalExternalWorkflow(wc, "w"), SignalExternalWorkflow(rp, "w"))

DoUpsertSearchAttributes(room, maps, twin) ==
    \E attributes \in maps :
        /\ Ready(twin)
        /\ HasRoom(wc, room)
        /\ LET Outcome(r, q) ==
                   Step(r, [Created("UpsertSearchAttributes", decisionTypeUpsertSearchAttributes, r)
                              EXCEPT !.arg = Sprint(Cardinality(DOMAIN attributes))],
                        q, [Created("UpsertSearchAttributes", decisionTypeUpsertSearchAttributes, q)
                              EXCEPT !.arg = Sprint(Cardinality(DOMAIN attributes))],
                        twin)
           IN  Outcome(UpsertSearchAttributes(wc, attributes), UpsertSearchAttributes(rp, attributes))

Collected(r, markAsSent) ==
    [NoOp EXCEPT !.by = "decider",
                 !.op = IF markAsSent THEN "getDecisions(true)" ELSE "getDecisions(false)",
                 !.decisions = r.result]

\* the decider collects the decisions of the task, getDecisions(true), or
\* looks at them, getDecisions(false)
DoGetDecisions(twin) ==
    \E markAsSent \in BOOLEAN :
        /\ Alive(wc, last)
        /\ twin => Alive(rp, lastRp)
        /\ LET Outcome(r, q) ==
                   Step([wc |-> WithHelper(wc, r.h)], Collected(r, markAsSent),
                        [wc |-> WithHelper(rp, q.h)], Collected(q, markAsSent), twin)
           IN  Outcome(getDecisions(wc.decisionsHelper, markAsSent),
                       getDecisions(rp.decisionsHelper, markAsSent))

\* ------------------------------------------------------ history events
EventIDs == 1..MaxEventID

Times == 0..MaxTime

\* event ids grow along a history: the id of the next event that is recorded
\* in a map of the helper
FreshEventIDs(h) ==
    LET used == DOMAIN h.scheduledEventIDToActivityID
                  \cup DOMAIN h.scheduledEventIDToCancellationID
                  \cup DOMAIN h.scheduledEventIDToSignalID
    IN  LET free == EventIDs \ used
        IN  IF free = {} THEN {} ELSE {CHOOSE n \in free : \A m \in free : n <= m}

\* the event ids an event may refer to: those recorded and, with unknown, one
\* that is not
Refs(m, unknown) == DOMAIN m \cup (IF unknown THEN {MaxEventID + 1} ELSE {})

ActivityEventsByID ==
    {"ActivityTaskCancelRequested", "RequestCancelActivityTaskFailed"}

ActivityEventsByRef ==
    {"ActivityTaskCompleted", "ActivityTaskFailed", "ActivityTaskTimedOut", "ActivityTaskCanceled"}

TimerEvents == {"TimerStarted", "TimerFired", "TimerCanceled", "CancelTimerFailed"}

ChildWorkflowEvents ==
    {"StartChildWorkflowExecutionInitiated", "StartChildWorkflowExecutionFailed",
     "ChildWorkflowExecutionStarted", "ChildWorkflowExecutionCompleted",
     "ChildWorkflowExecutionFailed", "ChildWorkflowExecutionTimedOut",
     "ChildWorkflowExecutionTerminated", "ChildWorkflowExecutionCanceled"}

CancelExternalEventsByRef ==
    {"RequestCancelExternalWorkflowExecutionFailed", "ExternalWorkflowExecutionCancelRequested"}

SignalEventsByRef == {"SignalExternalWorkflowExecutionFailed", "ExternalWorkflowExecutionSignaled"}

PlainEvent(type) == Event(type, 0, 0, "", 0, "", <<>>)

WorkflowExecutionStarted == PlainEvent("WorkflowExecutionStarted")

\* events no machine and no cache takes part in; "nil" is the nil event and
\* "Unknown" an event of a type the switch does not list
PlainEvents ==
    {PlainEvent(type) : type \in {"nil", "WorkflowExecutionStarted", "DecisionTaskScheduled", "Unknown"}}

\* the events a history may hold for the machines of the helper h
MachineEvents(h, unknown) ==
    {Event("ActivityTaskScheduled", n, 0, id, 0, "", <<>>) :
        n \in FreshEventIDs(h), id \in Named(h, decisionTypeActivity, unknown)}
    \cup {Event(type, 0, 0, id, 0, "", <<>>) :
            type \in ActivityEventsByID, id \in Named(h, decisionTypeActivity, unknown)}
    \cup {Event(type, 0, 0, "", ref, "", <<>>) :
            type \in ActivityEventsByRef, ref \in Refs(h.scheduledEventIDToActivityID, unknown)}
    \cup {Event(type, 0, 0, id, 0, "", <<>>) :
            type \in TimerEvents, id \in Named(h, decisionTypeTimer, unknown)}
    \cup {Event(type, 0, 0, id, 0, "", <<>>) :
            type \in ChildWorkflowEvents, id \in Named(h, decisionTypeChildWorkflow, unknown)}
    \cup {Event("RequestCancelExternalWorkflowExecutionInitiated", n, 0, id, 0, "", <<>>) :
            n \in FreshEventIDs(h), id \in Named(h, decisionTypeChildWorkflow, unknown)}
    \cup {Event("RequestCancelExternalWorkflowExecutionInitiated", n, 0, "w", 0, control, <<>>) :
            n \in FreshEventIDs(h), control \in Named(h, decisionTypeCancellation, unknown)}
    \cup {Event(type, 0, 0, id, ref, "", <<>>) :
            type \in CancelExternalEventsByRef,
            ref \in Refs(h.scheduledEventIDToCancellationID, TRUE),
            id \in Named(h, decisionTypeChildWorkflow, unknown)}
    \cup {Event("SignalExternalWorkflowExecutionInitiated", n, 0, control, 0, "", <<>>) :
            n \in FreshEventIDs(h), control \in Named(h, decisionTypeSignal, unknown)}
    \cup {Event(type, 0, 0, "", ref, "", <<>>) :
            type \in SignalEventsByRef, ref \in Refs(h.scheduledEventIDToSignalID, unknown)}

\* the machine an event is for: the kind and id its handler looks up
Addressed(h, event) ==
    LET none == makeDecisionID("none", "")
    IN  LET viaMap(m, kind) == IF MapHas(m, event.ref) THEN makeDecisionID(kind, m[event.ref]) ELSE none
        IN  CASE event.type \in ActivityEventsByID \cup {"ActivityTaskScheduled"} ->
                   makeDecisionID(decisionTypeActivity, event.id)
              [] event.type \in ActivityEventsByRef ->
                   viaMap(h.scheduledEventIDToActivityID, decisionTypeActivity)
              [] event.type \in TimerEvents -> makeDecisionID(decisionTypeTimer, event.id)
              [] event.type \in ChildWorkflowEvents -> makeDecisionID(decisionTypeChildWorkflow, event.id)
              [] event.type = "RequestCancelExternalWorkflowExecutionInitiated" ->
                   IF isCancelExternalWorkflowEventForChildWorkflow(event.marker)
                     THEN makeDecisionID(decisionTypeChildWorkflow, event.id)
                     ELSE makeDecisionID(decisionTypeCancellation, event.marker)
              [] event.type \in CancelExternalEventsByRef ->
                   IF IsExternal(h, event.ref)
                     THEN viaMap(h.scheduledEventIDToCancellationID, decisionTypeCancellation)
                     ELSE makeDecisionID(decisionTypeChildWorkflow, event.id)
              [] event.type = "SignalExternalWorkflowExecutionInitiated" ->
                   makeDecisionID(decisionTypeSignal, event.id)
              [] event.type \in SignalEventsByRef ->
                   viaMap(h.scheduledEventIDToSignalID, decisionTypeSignal)
              [] OTHER -> none

\* the input an event is to the machine it addresses
InputOf(event) ==
    CASE event.type \in {"ActivityTaskScheduled", "TimerStarted",
                         "StartChildWorkflowExecutionInitiated",
                         "SignalExternalWorkflowExecutionInitiated"} -> eventInitiated
      [] event.type = "RequestCancelExternalWorkflowExecutionInitiated" ->
           IF isCancelExternalWorkflowEventForChildWorkflow(event.marker)
             THEN eventCancelInitiated ELSE eventInitiated
      [] event.type = "StartChildWorkflowExecutionFailed" -> eventInitiationFailed
      [] event.type = "ChildWorkflowExecutionStarted" -> eventStarted
      [] event.type \in {"ActivityTaskCompleted", "ActivityTaskFailed", "ActivityTaskTimedOut",
                         "TimerFired", "ChildWorkflowExecutionCompleted",
                         "ChildWorkflowExecutionFailed", "ChildWorkflowExecutionTimedOut",
                         "ChildWorkflowExecutionTerminated"} \cup SignalEventsByRef -> eventCompletion
      [] event.type = "ActivityTaskCancelRequested" -> eventCancelInitiated
      [] event.type \in {"RequestCancelActivityTaskFailed", "CancelTimerFailed"} -> eventCancelFailed
      [] event.type \in {"ActivityTaskCanceled", "TimerCanceled",
                         "ChildWorkflowExecutionCanceled"} -> eventCanceled
      [] event.type = "RequestCancelExternalWorkflowExecutionFailed" -> "cancel-external-failed"
      [] event.type = "ExternalWorkflowExecutionCancelRequested" -> "cancel-external-requested"
      [] OTHER -> event.type

\* the time a clock event carries; for a Version marker, the change id and
\* version it carries
TimeOf(event) ==
    CASE event.type = "DecisionTaskStarted" -> Sprint(event.time)
      [] event.type = "MarkerRecorded" /\ event.marker = versionMarkerName ->
           decodeArgs(event.details)[1] \o "=" \o decodeArgs(event.details)[2]
      [] event.type = "MarkerRecorded" /\ event.marker = localActivityMarkerName -> decodeArgs(event.details)[2]
      [] OTHER -> ""

Processed(h, event, r) ==
    [NoOp EXCEPT !.by = "event", !.op = InputOf(event),
                 !.kind = Addressed(h, event).decisionType,
                 !.state = r.d.state, !.calls = r.d.data.calls,
                 !.id = Addressed(h, event).id,
                 !.arg = TimeOf(event),
                 !.panic = r.propagated, !.err = r.err, !.recovered = r.recovered,
                 !.ticks = r.ticks]

\* a tick runs user code, which may panic; only the workflow started event
\* consults the registry
Flags(event, isLast) ==
    {f \in [userPanic : BOOLEAN, registered : BOOLEAN] :
        /\ (f.userPanic => isLast \/ event.type \in {"DecisionTaskStarted", "MarkerRecorded"})
        /\ (~f.registered => event.type = "WorkflowExecutionStarted")}

\* the driver hands the run one event of its history; the replay of the run
\* is handed the same event in replay mode
DoProcessEvent(events, lasts, replays, twin) ==
    \E event \in events, isLast \in lasts, isReplay \in replays :
        \E f \in Flags(event, isLast) :
            /\ Alive(wc, last)
            /\ twin => Alive(rp, lastRp)
            /\ LET Outcome(r, q) ==
                       Step(r, Processed(wc.decisionsHelper, event, r),
                            q, Processed(rp.decisionsHelper, event, q), twin)
               IN  Outcome(ProcessEvent(wc, event, isReplay, isLast, f.userPanic, f.registered),
                           ProcessEvent(rp, event, TRUE, isLast, f.userPanic, f.registered))

\* the driver hands the run one event of a decision task and tells it whether
\* the event is the last of the task
DoProcessTaskEvent(events, lasts, replays) ==
    \E event \in events, isLast \in lasts, isReplay \in replays :
        \E f \in Flags(event, isLast) :
            /\ Alive(wc, last)
            /\ LET Outcome(r) ==
                       Step(r, [Processed(wc.decisionsHelper, event, r)
                                  EXCEPT !.type = event.type, !.isLast = isLast],
                            r, NoOp, FALSE)
               IN  Outcome(ProcessEvent(wc, event, isReplay, isLast, f.userPanic, f.registered))

\* the byte lengths a query result may have: none, around the limit and that
\* of the large result of the integration test
LargeQueryResultSize == 3000000

QuerySizes ==
    {0, queryResultSizeLimit - 1, queryResultSizeLimit, queryResultSizeLimit + 1, LargeQueryResultSize}

\* what a registered query handler may return
QueryOutcomes ==
    {[result |-> Bytes(n, data), err |-> "nil"] : n \in QuerySizes, data \in {"r", "s"}}
      \cup {[result |-> NilBytes, err |-> "unknown queryType"]}

\* what a query left behind: the query type, the length and content of what
\* the handler returned, the result as content and length, and the error
Queried(queryType, handled, r) ==
    [NoOp EXCEPT !.by = "query", !.op = "ProcessQuery", !.id = queryType,
                 !.arg = IF handled.err = "nil" THEN Sprint(len(handled.result)) ELSE "",
                 !.kind = handled.result.data,
                 !.ret = IF r.result = NilBytes THEN <<>> ELSE <<r.result.data, Sprint(len(r.result))>>,
                 !.err = r.err]

\* a client queries the started workflow
DoProcessQuery(queryTypes) ==
    \E queryType \in queryTypes, handled \in QueryOutcomes :
        /\ Running(wc, last)
        /\ LET Outcome(r) ==
                   /\ last' = Queried(queryType, handled, r)
                   /\ UNCHANGED <<wc, rp, lastRp>>
           IN  Outcome(ProcessQuery(wc, queryType, Bytes(1, "trace"), handled))

\* a run that waits for each operation before it starts the next
Next ==
    \/ DoExecuteActivity(Single, {"", "a"}, BOOLEAN, FALSE)
    \/ DoRequestCancelActivity(TRUE, FALSE)
    \/ DoNewTimer(Single, {-1, 0, 1}, FALSE)
    \/ DoRequestCancelTimer(TRUE, FALSE)
    \/ DoExecuteChildWorkflow(Single, FALSE)
    \/ DoRequestCancelChildWorkflow(TRUE, FALSE)
    \/ DoRequestCancelExternalWorkflow(Single, FALSE)
    \/ DoSignalExternalWorkflow(Single, FALSE)
    \/ DoUpsertSearchAttributes(Single, {<<>>, ("key" :> <<"1">>), (CadenceChangeVersion :> <<"u-1">>)},
                                FALSE)
    \/ DoGetDecisions(FALSE)
    \/ DoProcessEvent(PlainEvents \cup MachineEvents(wc.decisionsHelper, TRUE), BOOLEAN, {FALSE}, FALSE)

Spec == Init /\ [][Next]_vars

\* a run that keeps two operations outstanding and whose history names the
\* machines of the run only
NextOrder ==
    \/ DoExecuteActivity(Pair, {"", "a"}, {FALSE}, FALSE)
    \/ DoRequestCancelActivity(FALSE, FALSE)
    \/ DoNewTimer(Pair, {1}, FALSE)
    \/ DoRequestCancelTimer(FALSE, FALSE)
    \/ DoExecuteChildWorkflow(Pair, FALSE)
    \/ DoRequestCancelChildWorkflow(FALSE, FALSE)
    \/ DoUpsertSearchAttributes(Pair, {("key" :> <<"1">>)}, FALSE)
    \/ DoGetDecisions(FALSE)
    \/ DoProcessEvent({WorkflowExecutionStarted} \cup MachineEvents(wc.decisionsHelper, FALSE),
                      {FALSE}, {FALSE}, FALSE)

SpecOrder == Init /\ [][NextOrder]_vars

\* ------------------------------------------- clock, markers and caches
DecisionTaskStartedEvents == {Event("DecisionTaskStarted", 0, t, "", 0, "", <<>>) : t \in Times}

MarkerRecorded(markerName, details) == Event("MarkerRecorded", 0, 0, "", 0, markerName, details)

\* the markers a history may hold: those the calls below record, a local
\* activity's result with the time it was taken, and one of a name unknown
MarkerEvents(e) ==
    {MarkerRecorded(sideEffectMarkerName, encodeArgs(<<Sprintf(n), "v">>)) : n \in 0..(MaxCounter - 1)}
      \cup {MarkerRecorded(versionMarkerName, encodeArgs(<<"c", Sprint(1)>>))}
      \cup {MarkerRecorded(mutableSideEffectMarkerName, encodeArgs(<<"m">> \o encodeValue("x")))}
      \cup {MarkerRecorded(localActivityMarkerName, encodeArgs(<<id, Sprint(t), type>>)) :
              id \in e.pendingLaTasks, t \in Times, type \in {"la", "other"}}
      \cup {MarkerRecorded("Unknown", <<>>)}

\* the replay of a decision task is handed the markers the task recorded
\* before its workflow code runs: the marker the live call r recorded
PreloadMarker(e, r) ==
    IF r.panic = NoPanic /\ r.d.id.decisionType = decisionTypeMarker
      THEN ProcessEvent(e, MarkerRecorded(r.d.attributes.decision, r.d.attributes.details),
                        TRUE, FALSE, FALSE, TRUE).wc
      ELSE e

DoExecuteLocalActivity ==
    /\ Running(wc, last)
    /\ HasRoom(wc, Pair)
    /\ LET Outcome(r) ==
               Step(r, Requested("ExecuteLocalActivity", decisionTypeMarker, r.ret, r), r, NoOp, FALSE)
       IN  Outcome(ExecuteLocalActivity(wc))

DoGetVersion(twin) ==
    \E minSupported \in {DefaultVersion, 1}, maxSupported \in {1} :
        /\ Ready(twin)
        /\ HasRoom(wc, Pair)
        /\ LET Outcome(r) ==
                   LET Replayed(q) ==
                           Step(r, Called("GetVersion", decisionTypeMarker, "c", r, <<Sprint(r.ret)>>),
                                q, Called("GetVersion", decisionTypeMarker, "c", q, <<Sprint(q.ret)>>),
                                twin)
                   IN  Replayed(GetVersion(PreloadMarker(rp, r), "c", minSupported, maxSupported))
           IN  Outcome(GetVersion(wc, "c", minSupported, maxSupported))

\* the user function returns a value or fails
DoSideEffect(errs, twin) ==
    \E fErr \in errs :
        /\ Ready(twin)
        /\ HasRoom(wc, Pair)
        /\ LET Outcome(r) ==
                   LET Replayed(q) ==
                           Step(r, Called("SideEffect", decisionTypeMarker, Sprintf(wc.counterID), r, r.ret),
                                q, Called("SideEffect", decisionTypeMarker, Sprintf(rp.counterID), q, q.ret),
                                twin)
                   IN  Replayed(SideEffect(PreloadMarker(rp, r), <<"v">>, fErr))
           IN  Outcome(SideEffect(wc, <<"v">>, fErr))

DoMutableSideEffect(twin) ==
    \E fValue \in {"nil", "x", "y"} :
        /\ Ready(twin)
        /\ HasRoom(wc, Pair)
        /\ LET Outcome(r) ==
                   LET Replayed(q) ==
                           Step(r, [Called("MutableSideEffect", decisionTypeMarker, "m", r, r.ret)
                                      EXCEPT !.arg = fValue],
                                q, [Called("MutableSideEffect", decisionTypeMarker, "m", q, q.ret)
                                      EXCEPT !.arg = fValue], twin)
                   IN  Replayed(MutableSideEffect(PreloadMarker(rp, r), "m", fValue))
           IN  Outcome(MutableSideEffect(wc, "m", fValue))

\* a run whose task events are processed live or in replay
NextEnv ==
    \/ DoExecuteLocalActivity
    \/ DoGetVersion(FALSE)
    \/ DoSideEffect(BOOLEAN, FALSE)
    \/ DoMutableSideEffect(FALSE)
    \/ DoGetDecisions(FALSE)
    \/ DoProcessEvent({WorkflowExecutionStarted} \cup DecisionTaskStartedEvents \cup MarkerEvents(wc),
                      {FALSE}, BOOLEAN, FALSE)

SpecEnv == Init /\ [][NextEnv]_vars

\* a live run and, in step with it, the replay of its history: the replay
\* makes the same calls and is handed the same events
NextReplay ==
    \/ DoExecuteActivity(Pair, {"", "a"}, {FALSE}, TRUE)
    \/ DoRequestCancelActivity(FALSE, TRUE)
    \/ DoNewTimer(Pair, {1}, TRUE)
    \/ DoRequestCancelTimer(FALSE, TRUE)
    \/ DoExecuteChildWorkflow(Pair, TRUE)
    \/ DoRequestCancelChildWorkflow(FALSE, TRUE)
    \/ DoRequestCancelExternalWorkflow(Pair, TRUE)
    \/ DoSignalExternalWorkflow(Pair, TRUE)
    \/ DoUpsertSearchAttributes(Pair, {("key" :> <<"1">>)}, TRUE)
    \/ DoGetVersion(TRUE)
    \/ DoSideEffect({FALSE}, TRUE)
    \/ DoMutableSideEffect(TRUE)
    \/ DoGetDecisions(TRUE)
    \/ DoProcessEvent({WorkflowExecutionStarted} \cup MachineEvents(wc.decisionsHelper, FALSE),
                      {FALSE}, {FALSE}, TRUE)

SpecReplay == Init /\ [][NextReplay]_vars

\* ------------------------------------------- cancellation after the close
\* the id of the machine whose close event (completion, failure, time-out,
\* firing or cancellation) the run has just processed
ClosedIDs(decisionType) ==
    IF /\ last.by = "event" /\ last.kind = decisionType
       /\ last.op \in {eventCompletion, eventCanceled}
       /\ last.err = "nil"
      THEN {last.id}
      ELSE {}

\* workflow code cancels the context of an activity that has closed
DoRequestCancelClosedActivity ==
    \E activityID \in ClosedIDs(decisionTypeActivity) :
        /\ Running(wc, last)
        /\ LET Outcome(r) ==
                   Step(r, Requested("RequestCancelActivity", decisionTypeActivity, activityID, r),
                        r, NoOp, FALSE)
           IN  Outcome(RequestCancelActivity(wc, activityID))

\* workflow code cancels the context of a timer that has fired or was canceled
DoRequestCancelClosedTimer ==
    \E timerID \in ClosedIDs(decisionTypeTimer) :
        /\ Running(wc, last)
        /\ LET Outcome(r) ==
                   Step(r, Requested("RequestCancelTimer", decisionTypeTimer, timerID, r),
                        r, NoOp, FALSE)
           IN  Outcome(RequestCancelTimer(wc, timerID))

\* a run of activities and timers whose contexts are canceled before or after
\* they close
NextCancel ==
    \/ DoExecuteActivity(Single, {"a"}, BOOLEAN, FALSE)
    \/ DoRequestCancelActivity(FALSE, FALSE)
    \/ DoRequestCancelClosedActivity
    \/ DoNewTimer(Single, {1}, FALSE)
    \/ DoRequestCancelTimer(FALSE, FALSE)
    \/ DoRequestCancelClosedTimer
    \/ DoGetDecisions(FALSE)
    \/ DoProcessEvent({WorkflowExecutionStarted} \cup MachineEvents(wc.decisionsHelper, FALSE),
                      {FALSE}, {FALSE}, FALSE)

SpecCancel == Init /\ [][NextCancel]_vars

\* ------------------------------------------------------------ versions
\* the versions a workflow may support and a history may hold
Versions == DefaultVersion..MaxVersion

\* the range a GetVersion call asked for
VersionRange(minSupported, maxSupported) == Sprint(minSupported) \o ":" \o Sprint(maxSupported)

VersionMarkerEvents ==
    {MarkerRecorded(versionMarkerName, encodeArgs(<<"c", Sprint(version)>>)) : version \in Versions}

\* workflow code asks for the version of change "c" with any range of
\* supported versions
DoGetVersionIn(minimums, maximums) ==
    \E minSupported \in minimums, maxSupported \in maximums :
        /\ Running(wc, last)
        /\ Len(wc.decisionsHelper.orderedDecisions) <= 2
        /\ LET Outcome(r) ==
                   Step(r, [Called("GetVersion", decisionTypeMarker, "c", r, <<Sprint(r.ret)>>)
                              EXCEPT !.arg = VersionRange(minSupported, maxSupported)],
                        r, NoOp, FALSE)
           IN  Outcome(GetVersion(wc, "c", minSupported, maxSupported))

\* a run that asks for versions, live or in replay, with or without a
\* version marker in its history
NextVersion ==
    \/ DoGetVersionIn(Versions, Versions)
    \/ DoGetDecisions(FALSE)
    \/ DoProcessEvent({WorkflowExecutionStarted} \cup VersionMarkerEvents, {FALSE}, BOOLEAN, FALSE)

SpecVersion == Init /\ [][NextVersion]_vars

\* ------------------------------------------------ events of a decision task
\* a run with local activities and a timer that is handed the events of its
\* decision tasks, the last of each marked as such
TaskEvents(e) ==
    PlainEvents \cup DecisionTaskStartedEvents \cup MarkerEvents(e)
      \cup {Event(type, 0, 0, id, 0, "", <<>>) :
              type \in TimerEvents, id \in Named(e.decisionsHelper, decisionTypeTimer, TRUE)}

NextTask ==
    \/ DoExecuteLocalActivity
    \/ DoNewTimer(Single, {1}, FALSE)
    \/ DoGetDecisions(FALSE)
    \/ DoProcessTaskEvent(TaskEvents(wc), BOOLEAN, {FALSE})
    \/ DoProcessQuery({QueryTypeStackTrace, "q"})

SpecTask == Init /\ [][NextTask]_vars

\* --------------------------------- a timer cancelled before it is started
\* workflow code cancels a timer whose start decision was sent and whose
\* TimerStarted event has not been processed
DoRequestCancelSentTimer ==
    \E timerID \in IDsOf(wc.decisionsHelper, decisionTypeTimer) :
        /\ Running(wc, last)
        /\ MachineAt(wc.decisionsHelper, makeDecisionID(decisionTypeTimer, timerID)).state
             = decisionStateDecisionSent
        /\ LET Outcome(r) ==
                   Step(r, Requested("RequestCancelTimer", decisionTypeTimer, timerID, r),
                        r, NoOp, FALSE)
           IN  Outcome(RequestCancelTimer(wc, timerID))

\* a run of timers that are cancelled, if at all, in the decision task after
\* the one that started them
NextTimer ==
    \/ DoNewTimer(Single, {1}, FALSE)
    \/ DoRequestCancelSentTimer
    \/ DoGetDecisions(FALSE)
    \/ DoProcessEvent({WorkflowExecutionStarted}
                        \cup {Event(type, 0, 0, id, 0, "", <<>>) :
                                type \in TimerEvents,
                                id \in Named(wc.decisionsHelper, decisionTypeTimer, TRUE)},
                      BOOLEAN, {FALSE}, FALSE)

SpecTimer == Init /\ [][NextTimer]_vars

\* ------------------------------------------- cancels among other decisions
\* a run that records markers between the start of an activity, timer or
\* child workflow and its cancel request
NextPromote ==
    \/ DoExecuteActivity(Pair, {"a"}, {FALSE}, FALSE)
    \/ DoNewTimer(Pair, {1}, FALSE)
    \/ DoExecuteChildWorkflow(Pair, FALSE)
    \/ DoGetVersionIn({DefaultVersion}, {1})
    \/ DoRequestCancelActivity(FALSE, FALSE)
    \/ DoRequestCancelTimer(FALSE, FALSE)
    \/ DoRequestCancelChildWorkflow(FALSE, FALSE)
    \/ DoGetDecisions(FALSE)
    \/ DoProcessEvent({WorkflowExecutionStarted} \cup MachineEvents(wc.decisionsHelper, FALSE),
                      {FALSE}, {FALSE}, FALSE)

SpecPromote == Init /\ [][NextPromote]_vars

\* ---- requests to external workflows
ExternalKinds == {decisionTypeCancellation, decisionTypeSignal}

ExternalEventTypes ==
    {"RequestCancelExternalWorkflowExecutionInitiated", "SignalExternalWorkflowExecutionInitiated"}
        \cup CancelExternalEventsByRef \cup SignalEventsByRef

\* the cancel method of a machine, called on the machine itself
CancelMachine(e, did) ==
    LET With_r(r) == EnvRet(WithHelper(e, r.h), r.d, r.panic, "none", FALSE)
    IN  With_r(cancel(e.decisionsHelper, MachineAt(e.decisionsHelper, did)))

DoCancelMachine(kinds) ==
    \E did \in {x \in wc.decisionsHelper.decisions : x.decisionType \in kinds} :
        /\ Ready(FALSE)
        /\ LET Outcome(r) ==
                   Step(r, Called("cancel", did.decisionType, did.id, r, <<>>), r, NoOp, FALSE)
           IN  Outcome(CancelMachine(wc, did))

NextExternal ==
    \/ DoRequestCancelExternalWorkflow(Single, FALSE)
    \/ DoSignalExternalWorkflow(Single, FALSE)
    \/ DoCancelMachine(ExternalKinds)
    \/ DoGetDecisions(FALSE)
    \/ DoProcessEvent({WorkflowExecutionStarted}
                        \cup {e \in MachineEvents(wc.decisionsHelper, TRUE) :
                                 e.type \in ExternalEventTypes},
                      BOOLEAN, {FALSE}, FALSE)

SpecExternal == Init /\ [][NextExternal]_vars

\* ------------------------------------------------------------ properties
dh == wc.decisionsHelper

LastID == makeDecisionID(last.kind, last.id)

CreationCalls ==
    {"ExecuteActivity", "NewTimer", "ExecuteChildWorkflow", "RequestCancelExternalWorkflow",
     "SignalExternalWorkflow", "UpsertSearchAttributes"}

\* C6 (1): the collection holds no machine in state Completed
NoCompletedMachine ==
    \A i \in 1..Len(dh.orderedDecisions) : dh.orderedDecisions[i].state # decisionStateCompleted

\* C6 (2): the machine an operation took to Completed is in neither the list
\* nor the map
CompletedIsRemoved ==
    last.state = decisionStateCompleted => ~InList(dh, LastID) /\ ~InMap(dh, LastID)

\* C6 (3): the machine a local intent created is in the list and in the map
\* when the call returns
CreatedIsKept ==
    (last.op \in CreationCalls /\ last.panic = NoPanic /\ last.state # "none")
        => InList(dh, LastID) /\ InMap(dh, LastID)

\* C6 (4): a machine leaves the collection only in the step that takes it to
\* Completed
KeptUntilCompleted ==
    \A did \in dh.decisions :
        did \notin dh'.decisions =>
            \/ last'.state = decisionStateCompleted /\ did = makeDecisionID(last'.kind, last'.id)
            \/ /\ last'.op = "getDecisions(true)"
               /\ handleDecisionSent(dh, MachineAt(dh, did)).d.state = decisionStateCompleted

\* C6: a machine is in the collection from the intent that creates it until
\* it reaches Completed, when it is removed from the list and the map; the
\* collection never holds a machine in state Completed
C6_RemovedOnCompleted ==
    /\ [](NoCompletedMachine /\ CompletedIsRemoved /\ CreatedIsKept)
    /\ [][KeptUntilCompleted]_vars

\* an activity ran to its completion event and its machine is gone, while
\* the machine of a later intent is kept
C6_Witness ==
    /\ last.by = "event" /\ last.op = eventCompletion /\ last.kind = decisionTypeActivity
    /\ last.state = decisionStateCompleted
    /\ ~InMap(dh, LastID)
    /\ wc.counterID > 0

\* C5: an event for a (kind, id) with no machine in the collection raises the
\* illegal-state panic "unknown decision" and creates or changes no machine
UnknownDecisionStep ==
    (/\ last'.by = "event"
     /\ last'.kind # "none"
     /\ makeDecisionID(last'.kind, last'.id) \notin dh.decisions)
        => /\ last'.recovered = PanicUnknownDecision
           /\ last'.recovered \in stateMachineIllegalStatePanic
           /\ dh'.orderedDecisions = dh.orderedDecisions
           /\ dh'.decisions = dh.decisions

C5_UnknownDecisionPanics == [][UnknownDecisionStep]_vars

\* a second close event for an activity whose machine was removed by the
\* first one met the panic, and so did an event for an id never issued
C5_Witness ==
    /\ last.by = "event" /\ last.recovered = PanicUnknownDecision
    /\ last.kind = decisionTypeActivity /\ last.op = eventCompletion
    /\ last.id # UnknownID

\* C10: a panic raised while ProcessEvent handles an event does not leave
\* ProcessEvent and reaches the completion handler exactly once, as a
\* workflow panic error; without a panic the handler is not called
RecoveredStep ==
    last'.by = "event" =>
        /\ last'.panic = NoPanic
        /\ wc'.completeCalls =
             IF last'.recovered = NoPanic
               THEN wc.completeCalls
               ELSE Append(wc.completeCalls, newWorkflowPanicError(last'.recovered))

C10_PanicsRecovered == [][RecoveredStep]_vars

\* an illegal state transition was recovered and delivered
C10_Witness ==
    /\ last.by = "event" /\ last.recovered = PanicInvalidTransition
    /\ wc.completeCalls = <<newWorkflowPanicError(PanicInvalidTransition)>>

\* C4 (1): the callback of a waiter has run at most once, and has run exactly
\* when the waiter is handled
CalledAtMostOnce ==
    /\ last.calls <= 1
    /\ \A i \in 1..Len(dh.orderedDecisions) :
         LET data == dh.orderedDecisions[i].data
         IN  data.calls = IF data.handled THEN 1 ELSE 0

\* C4 (2): a handled waiter stays handled
StaysHandled ==
    \A did \in dh.decisions \cap dh'.decisions :
        MachineAt(dh, did).data.handled => MachineAt(dh', did).data.handled

\* C4: over any events and cancel requests the handled flag of a waiter goes
\* from false to true at most once and its callback runs at most once
C4_AtMostOnceCallback == []CalledAtMostOnce /\ [][StaysHandled]_vars

\* the cancelled activity's Canceled event arrived after its waiter was
\* resolved by the cancel request: the callback had run once and did not run
\* again
C4_Witness ==
    /\ last.by = "event" /\ last.op = eventCanceled /\ last.kind = decisionTypeActivity
    /\ last.recovered = NoPanic /\ last.state = decisionStateCompleted
    /\ last.calls = 1

\* the transitions of the machines that mirror an activity, a timer or a
\* child workflow, as <<input, state before, state after>>
CommonTransitions ==
    {<<eventCancel, decisionStateCreated, decisionStateCompleted>>,
     <<eventCancel, decisionStateDecisionSent, decisionStateCanceledBeforeInitiated>>,
     <<eventCancel, decisionStateInitiated, decisionStateCanceledAfterInitiated>>,
     <<eventDecisionSent, decisionStateCreated, decisionStateDecisionSent>>,
     <<eventInitiated, decisionStateDecisionSent, decisionStateInitiated>>,
     <<eventInitiated, decisionStateCanceledBeforeInitiated, decisionStateCanceledAfterInitiated>>,
     <<eventInitiationFailed, decisionStateInitiated, decisionStateCompleted>>,
     <<eventInitiationFailed, decisionStateDecisionSent, decisionStateCompleted>>,
     <<eventInitiationFailed, decisionStateCanceledBeforeInitiated, decisionStateCompleted>>,
     <<eventCompletion, decisionStateInitiated, decisionStateCompleted>>,
     <<eventCompletion, decisionStateCanceledAfterInitiated, decisionStateCompleted>>,
     <<eventCompletion, decisionStateCancellationDecisionSent,
       decisionStateCompletedAfterCancellationDecisionSent>>,
     <<eventCancelInitiated, decisionStateCancellationDecisionSent,
       decisionStateCancellationDecisionSent>>,
     <<eventCancelFailed, decisionStateCompletedAfterCancellationDecisionSent,
       decisionStateCompleted>>,
     <<eventCanceled, decisionStateCancellationDecisionSent, decisionStateCompleted>>}

LinearTransitions ==
    {<<eventDecisionSent, decisionStateCreated, decisionStateDecisionSent>>,
     <<eventInitiated, decisionStateDecisionSent, decisionStateInitiated>>,
     <<eventCompletion, decisionStateInitiated, decisionStateCompleted>>}

CompletedOnSend == {<<eventDecisionSent, decisionStateCreated, decisionStateCompleted>>}

\* the transitions listed for each variant
Listed(kind) ==
    CASE kind \in {decisionTypeActivity, decisionTypeTimer} ->
           CommonTransitions \cup
           {<<eventDecisionSent, decisionStateCanceledAfterInitiated,
              decisionStateCancellationDecisionSent>>,
            <<eventCancelFailed, decisionStateCancellationDecisionSent, decisionStateInitiated>>}
      [] kind = decisionTypeChildWorkflow ->
           CommonTransitions \cup
           {<<eventCancel, decisionStateStarted, decisionStateCanceledAfterStarted>>,
            <<eventDecisionSent, decisionStateCanceledAfterStarted,
              decisionStateCancellationDecisionSent>>,
            <<eventStarted, decisionStateInitiated, decisionStateStarted>>,
            <<eventStarted, decisionStateCanceledAfterInitiated, decisionStateCanceledAfterStarted>>,
            <<eventCompletion, decisionStateStarted, decisionStateCompleted>>,
            <<eventCompletion, decisionStateCanceledAfterStarted, decisionStateCompleted>>,
            <<eventCancelFailed, decisionStateCancellationDecisionSent, decisionStateStarted>>,
            <<eventCanceled, decisionStateStarted, decisionStateCompleted>>}
      [] kind \in {decisionTypeCancellation, decisionTypeSignal} -> LinearTransitions
      [] OTHER -> CompletedOnSend

IsListed(kind, input, from) == \E t \in Listed(kind) : t[1] = input /\ t[2] = from

\* the inputs a machine takes without a transition and without a panic:
\* decision-sent in a state with nothing to send, a local cancel after the
\* completion that followed a cancellation decision, and a started event in a
\* state with no started transition
SilentlyAccepted(kind, input, from) ==
    \/ input = eventDecisionSent
    \/ input = eventCancel /\ from = decisionStateCompletedAfterCancellationDecisionSent
    \/ input = eventStarted /\ kind = decisionTypeChildWorkflow

\* one input to one machine: a listed transition is taken; any other input
\* panics with an illegal state transition and leaves the state, or, unless
\* strict, is one of the silently accepted inputs
InputOutcome(kind, input, from, to, panic, strict) ==
    IF IsListed(kind, input, from)
      THEN <<input, from, to>> \in Listed(kind) /\ panic \notin stateMachineIllegalStatePanic
      ELSE \/ panic = PanicInvalidTransition /\ panic \in stateMachineIllegalStatePanic /\ to = from
           \/ /\ ~strict /\ SilentlyAccepted(kind, input, from) /\ to = from
              /\ panic \notin stateMachineIllegalStatePanic

\* the input a call or an event is to the machine it addresses
StepInput(l) ==
    CASE l.by = "call" /\ l.op \in {"RequestCancelActivity", "RequestCancelTimer",
                                    "RequestCancelChildWorkflow"} -> eventCancel
      [] l.by = "event" /\ l.op = "cancel-external-requested" ->
           IF l.kind = decisionTypeChildWorkflow THEN "none" ELSE eventCompletion
      [] l.by = "event" /\ l.op = "cancel-external-failed" ->
           IF l.kind = decisionTypeChildWorkflow THEN eventCancelFailed ELSE eventCompletion
      [] l.by = "event" /\ l.op \in {eventInitiated, eventInitiationFailed, eventStarted,
                                     eventCompletion, eventCancelInitiated, eventCancelFailed,
                                     eventCanceled} -> l.op
      [] OTHER -> "none"

StepPanic(l) == IF l.by = "call" THEN l.panic ELSE l.recovered

StateIn(h, did) ==
    IF InMap(h, did) THEN MachineAt(h, did).state ELSE decisionStateCompleted

\* every input of a step to a machine of the collection has its outcome
LegalStep(strict) ==
    /\ (StepInput(last') # "none" /\ InMap(dh, makeDecisionID(last'.kind, last'.id)))
          => InputOutcome(last'.kind, StepInput(last'),
                          MachineAt(dh, makeDecisionID(last'.kind, last'.id)).state,
                          last'.state, StepPanic(last'), strict)
    /\ last'.op = "getDecisions(true)"
          => \A did \in dh.decisions :
                InputOutcome(did.decisionType, eventDecisionSent, MachineAt(dh, did).state,
                             StateIn(dh', did), NoPanic, strict)

\* C2 as stated: every input to a machine is a listed transition of its
\* variant or raises the illegal state transition panic
C2_AsStated == [][LegalStep(TRUE)]_vars

\* C2: every input to a machine is a listed transition of its variant or
\* raises the illegal state transition panic, except that decision-sent
\* where there is nothing to send, a local cancel in
\* CompletedAfterCancellationDecisionSent and a child's started event outside
\* Initiated and CanceledAfterInitiated are accepted and change nothing
C2_LegalTransitions == [][LegalStep(FALSE)]_vars

\* a child workflow whose start decision was sent but not yet initiated took
\* a started event without a panic and without a transition
C2_Witness ==
    /\ last.by = "event" /\ last.op = eventStarted /\ last.kind = decisionTypeChildWorkflow
    /\ last.state = decisionStateDecisionSent
    /\ last.recovered = NoPanic

\* the ids of the machines in list order
IDs(h) == [i \in 1..Len(h.orderedDecisions) |-> h.orderedDecisions[i].id]

Without(ids, did) == SelectSeq(ids, LAMBDA x : x # did)

HasPending(d) == getDecision_of(d) # <<>>

\* the pending decisions of the machines of a list, in list order
PendingInOrder(list) ==
    LET pending == SelectSeq(list, HasPending)
    IN  [i \in 1..Len(pending) |-> getDecision_of(pending[i])[1]]

\* C3 (1): a new machine goes to the end of the list
InsertionStep ==
    (last'.op \in CreationCalls /\ last'.panic = NoPanic /\ last'.state # "none")
        => IDs(dh') = Append(IDs(dh), makeDecisionID(last'.kind, last'.id))

\* C3 (2): the machine an event is for goes to the end of the list, or
\* leaves it, and the other machines keep their order
TouchStep ==
    (/\ last'.by = "event"
     /\ InMap(dh, makeDecisionID(last'.kind, last'.id)))
        => LET did == makeDecisionID(last'.kind, last'.id)
           IN  IDs(dh') = IF InMap(dh', did) THEN Append(Without(IDs(dh), did), did)
                                             ELSE Without(IDs(dh), did)

\* C3 (3): getDecisions returns the pending decisions in list order and
\* keeps the order of the machines that stay
CollectStep ==
    last'.by = "decider"
        => /\ last'.decisions = PendingInOrder(dh.orderedDecisions)
           /\ IDs(dh') = SelectSeq(IDs(dh), LAMBDA x : InMap(dh', x))

\* C3: the collection is ordered by insertion, a machine that receives a
\* history event moves to the end of the list, and getDecisions returns the
\* pending decisions in list order
C3_DecisionOrdering == [][InsertionStep /\ TouchStep /\ CollectStep]_vars

\* an activity scheduled before a timer was created, then touched by its
\* scheduled event and cancelled: its cancel decision comes out after the
\* timer's start decision
C3_Witness ==
    /\ last.op = "getDecisions(false)"
    /\ Len(dh.orderedDecisions) = 2
    /\ dh.orderedDecisions[1].state = decisionStateCreated
    /\ dh.orderedDecisions[1].id.decisionType = decisionTypeTimer
    /\ dh.orderedDecisions[2].state = decisionStateCanceledAfterInitiated
    /\ Len(last.decisions) = 2
    /\ last.decisions[1].decision = "StartTimer"
    /\ last.decisions[2].decision = "RequestCancelActivityTask"

\* C7: over any events, decision task started events with earlier
\* timestamps and local activity markers among them, Now() never decreases
C7_ClockMonotonic == [][Now(wc') >= Now(wc)]_vars

\* a decision task started event with an earlier timestamp was processed and
\* the clock kept its later time
C7_Witness ==
    /\ last.by = "event" /\ last.op = "DecisionTaskStarted" /\ last.arg = Sprint(0)
    /\ Now(wc) = 1

\* C9 (1): in replay SideEffect does not run the user function; it returns
\* the value cached for its id, and panics when there is none
ReplaySideEffectStep ==
    (last'.op = "SideEffect" /\ wc.isReplay)
        => /\ ~last'.ran
           /\ IF MapHas(wc.sideEffectResult, wc.counterID)
                THEN last'.panic = NoPanic /\ last'.ret = wc.sideEffectResult[wc.counterID]
                ELSE last'.panic = PanicNoSideEffect

\* C9 (2): in replay MutableSideEffect does not run the user function; it
\* returns the value cached for its id, and panics when there is none
ReplayMutableSideEffectStep ==
    (last'.op = "MutableSideEffect" /\ wc.isReplay)
        => /\ ~last'.ran
           /\ IF MapHas(wc.mutableSideEffect, last'.id)
                THEN last'.panic = NoPanic /\ last'.ret = wc.mutableSideEffect[last'.id]
                ELSE last'.panic = PanicNoMutableSideEffect

\* C9: in replay SideEffect and MutableSideEffect never run the user
\* function: each returns the value cached from the marker of its id and
\* panics when no value is cached
C9_ReplayUsesCache == [][ReplaySideEffectStep /\ ReplayMutableSideEffectStep]_vars

\* a replayed SideEffect returned the marker's value without running the
\* user function
C9_Witness ==
    /\ last.op = "SideEffect" /\ wc.isReplay
    /\ ~last.ran /\ last.panic = NoPanic
    /\ last.ret = <<"v">>

\* the decisions a replay does not issue again: the markers, whose values
\* the replay reads from the history, and the upsert of a change version
NotReplayed(attributes) ==
    \/ attributes.decision \in {sideEffectMarkerName, versionMarkerName, localActivityMarkerName,
                                mutableSideEffectMarkerName}
    \/ /\ attributes.decision = "UpsertWorkflowSearchAttributes"
       /\ \E version \in {DefaultVersion, 1} : attributes.id = getChangeVersion("c", version)

ReplayedDecisions(decisions) == SelectSeq(decisions, LAMBDA a : ~NotReplayed(a))

ReplayedMachines(h) == SelectSeq(h.orderedDecisions, LAMBDA d : ~NotReplayed(d.attributes))

\* the replay has taken the steps of a run that has not panicked: a task
\* that panics records no history
Twin == lastRp.by # "none" /\ Alive(wc, last)

CounterStep == wc'.counterID >= wc.counterID /\ rp'.counterID >= rp.counterID

\* C8 (2): after the same calls the counter of the replay is that of the
\* run, and the id a call generated is the same in both
SameSequence ==
    Twin => /\ wc.counterID = rp.counterID
            /\ (last.op \in CreationCalls \cup {"SideEffect", "GetVersion"}) => last.id = lastRp.id

\* C8: the sequence counter never rewinds, and after each call of a fixed
\* sequence of calls its value in the replay is its value in the run, so
\* that the ids generated are the same
C8_SequenceCounter == []SameSequence /\ [][CounterStep]_vars

\* after a GetVersion, whose upsert takes no sequence number, the run and its
\* replay both gave the next timer the id 0
C8_Witness ==
    /\ last.op = "NewTimer" /\ lastRp.op = "NewTimer"
    /\ MapHas(wc.changeVersions, "c")
    /\ last.id = Sprintf(0) /\ lastRp.id = Sprintf(0)
    /\ wc.counterID = 1 /\ rp.counterID = 1

\* ---- C11: cancel after close
\* the step is a cancel request for an activity or timer whose close event was
\* the step before
CancelAfterClose ==
    /\ last.by = "event" /\ last.op \in {eventCompletion, eventCanceled}
    /\ last.kind \in {decisionTypeActivity, decisionTypeTimer}
    /\ last.err = "nil" /\ Alive(wc, last)
    /\ last'.by = "call" /\ last'.op \in {"RequestCancelActivity", "RequestCancelTimer"}
    /\ last'.kind = last.kind /\ last'.id = last.id

\* C11: a cancel request for an activity or timer whose close event has been
\* processed does not panic, leaves the machines and so the decisions as they
\* were and does not invoke the callback again
C11_CancelAfterCloseIsNoOp ==
    [][CancelAfterClose =>
         /\ last'.panic = NoPanic
         /\ getDecisions(wc'.decisionsHelper, FALSE).result
              = getDecisions(wc.decisionsHelper, FALSE).result
         /\ last'.ret = <<"none">>]_vars

\* the one case in which the code does what C11 says: the close came after
\* the cancellation decision was sent, so the machine is still in the
\* collection, in CompletedAfterCancellationDecisionSent
C11_NoOpCase ==
    /\ last.by = "call" /\ last.op = "RequestCancelActivity"
    /\ last.state = decisionStateCompletedAfterCancellationDecisionSent
    /\ last.panic = NoPanic /\ last.ret = <<"none">>

\* ---- C12, C13, C14: cancel requests and the callback
\* the waiter of a machine of the collection
Waiter(h, kind, id) ==
    IF InList(h, makeDecisionID(kind, id))
      THEN MachineAt(h, makeDecisionID(kind, id)).data
      ELSE NoData

Pending(h, kind, id) ==
    InList(h, makeDecisionID(kind, id)) /\ ~Waiter(h, kind, id).handled

CancelCall(op, kind) ==
    /\ last'.by = "call" /\ last'.op = op
    /\ Pending(wc.decisionsHelper, kind, last'.id)

\* C12: RequestCancelActivity for an activity scheduled without
\* wait-for-cancellation whose callback has not fired invokes the callback
\* with Canceled within the call, in whichever state the machine is
C12_CancelWithoutWait ==
    [][(/\ CancelCall("RequestCancelActivity", decisionTypeActivity)
        /\ ~Waiter(wc.decisionsHelper, decisionTypeActivity, last'.id).waitForCancelRequest)
         => /\ last'.panic = NoPanic
            /\ last'.ret = <<"Canceled">>
            /\ last'.calls = 1]_vars

\* the activity was initiated when its cancel request resolved it
C12_Witness ==
    /\ last.by = "call" /\ last.op = "RequestCancelActivity"
    /\ last.state = decisionStateCanceledAfterInitiated
    /\ last.ret = <<"Canceled">> /\ last.calls = 1

SentStates == {decisionStateDecisionSent, decisionStateInitiated}

\* a cancel request for an activity that waits for the cancellation and whose
\* schedule decision was sent leaves the future unresolved
WaitingCancelStep ==
    (/\ CancelCall("RequestCancelActivity", decisionTypeActivity)
     /\ Waiter(wc.decisionsHelper, decisionTypeActivity, last'.id).waitForCancelRequest
     /\ StateIn(wc.decisionsHelper, makeDecisionID(decisionTypeActivity, last'.id)) \in SentStates)
      => /\ last'.panic = NoPanic
         /\ last'.ret = <<"none">>
         /\ last'.calls = 0
         /\ Pending(wc'.decisionsHelper, decisionTypeActivity, last'.id)

\* a close event (canceled, completed, failed, timed out) accepted for an
\* activity that waits and is unresolved resolves it, once
ResolvingEventStep ==
    (/\ last'.by = "event" /\ last'.kind = decisionTypeActivity
     /\ last'.op \in {eventCompletion, eventCanceled}
     /\ last'.recovered = NoPanic /\ last'.panic = NoPanic
     /\ Pending(wc.decisionsHelper, decisionTypeActivity, last'.id)
     /\ Waiter(wc.decisionsHelper, decisionTypeActivity, last'.id).waitForCancelRequest)
      => /\ last'.calls = 1
         /\ ~Pending(wc'.decisionsHelper, decisionTypeActivity, last'.id)

\* C13: with WaitForCancellation set and the schedule decision sent,
\* RequestCancelActivity does not resolve the future; the canceled, completed,
\* failed or timed-out event that follows resolves it, exactly once
C13_CancelWithWait == [][WaitingCancelStep /\ ResolvingEventStep]_vars

\* the activity was canceled while it waits, and is still unresolved
C13_Witness ==
    /\ last.by = "call" /\ last.op = "RequestCancelActivity"
    /\ last.state = decisionStateCanceledAfterInitiated
    /\ last.ret = <<"none">> /\ last.calls = 0
    /\ Pending(wc.decisionsHelper, decisionTypeActivity, last.id)

\* the state a local cancel moves a machine to
CanceledFrom(state) ==
    CASE state = decisionStateCreated -> decisionStateCompleted
      [] state = decisionStateDecisionSent -> decisionStateCanceledBeforeInitiated
      [] state = decisionStateInitiated -> decisionStateCanceledAfterInitiated
      [] OTHER -> "none"

\* C14: RequestCancelTimer on a timer whose callback has not fired cancels the
\* machine and invokes the callback once, with Canceled, within the call, in
\* each of Created, DecisionSent and Initiated
C14_CancelTimer ==
    [][CancelCall("RequestCancelTimer", decisionTypeTimer)
         => /\ StateIn(wc.decisionsHelper, makeDecisionID(decisionTypeTimer, last'.id))
                 \in {decisionStateCreated} \cup SentStates
            /\ last'.panic = NoPanic
            /\ last'.ret = <<"Canceled">>
            /\ last'.calls = 1
            /\ last'.state = CanceledFrom(StateIn(wc.decisionsHelper,
                                                  makeDecisionID(decisionTypeTimer, last'.id)))
            /\ StateIn(wc'.decisionsHelper, makeDecisionID(decisionTypeTimer, last'.id))
                 = last'.state]_vars

\* a started timer was canceled
C14_Witness ==
    /\ last.by = "call" /\ last.op = "RequestCancelTimer"
    /\ last.state = decisionStateCanceledAfterInitiated
    /\ last.ret = <<"Canceled">> /\ last.calls = 1

\* ---- C15: NewTimer without a timer
NewTimerCall(durations) ==
    /\ last'.by = "call" /\ last'.op = "NewTimer"
    /\ ParseInt(last'.arg) \in durations

\* C15: NewTimer with d < 0 invokes the callback with an error and with d = 0
\* with success, within the call; neither creates a machine nor a decision
\* nor consumes a sequence id: the environment is as it was
C15_NewTimerImmediate ==
    [][/\ NewTimerCall({-1}) => last'.ret = <<"callback:negative duration">>
       /\ NewTimerCall({0}) => last'.ret = <<"callback:nil">>
       /\ NewTimerCall({-1, 0})
            => /\ last'.panic = NoPanic
               /\ wc' = wc
               /\ last'.kind = decisionTypeTimer /\ last'.state = "none"]_vars

\* a timer of duration zero was asked for: no sequence id is in use
C15_Witness ==
    /\ last.by = "call" /\ last.op = "NewTimer" /\ last.arg = Sprint(0)
    /\ last.ret = <<"callback:nil">>
    /\ wc.counterID = 0
    /\ wc.decisionsHelper.orderedDecisions = <<>>

\* ---- C16, C17, C18: GetVersion
\* the step is a GetVersion call with the range minSupported..maxSupported
GetVersionCall(minSupported, maxSupported) ==
    /\ last'.by = "call" /\ last'.op = "GetVersion"
    /\ last'.arg = VersionRange(minSupported, maxSupported)

Recorded == MapHas(wc.changeVersions, "c")

PendingDecisions(e) == getDecisions(e.decisionsHelper, FALSE).result

\* the first call of a live run
FirstLiveCall(minSupported, maxSupported) ==
    (GetVersionCall(minSupported, maxSupported) /\ ~wc.isReplay /\ ~Recorded
       /\ minSupported <= maxSupported)
      => /\ last'.panic = NoPanic
         /\ last'.ret = <<Sprint(maxSupported)>>
         /\ wc'.changeVersions["c"] = maxSupported
         /\ Len(PendingDecisions(wc')) = Len(PendingDecisions(wc)) + 2
         /\ SubSeq(PendingDecisions(wc'), 1, Len(PendingDecisions(wc))) = PendingDecisions(wc)
         /\ PendingDecisions(wc')[Len(PendingDecisions(wc)) + 1]
              = Attr(versionMarkerName, "c", encodeArgs(<<"c", Sprint(maxSupported)>>))
         /\ PendingDecisions(wc')[Len(PendingDecisions(wc)) + 2].decision
              = "UpsertWorkflowSearchAttributes"
         /\ PendingDecisions(wc')[Len(PendingDecisions(wc)) + 2].id
              = getChangeVersion("c", maxSupported)

\* a later call of a live run
LaterLiveCall(minSupported, maxSupported) ==
    (GetVersionCall(minSupported, maxSupported) /\ ~wc.isReplay /\ Recorded)
      => /\ last'.ret = <<Sprint(wc.changeVersions["c"])>>
         /\ wc' = wc

\* C16: in live execution the first GetVersion call for a change id returns
\* maxSupported and adds one Version marker decision and one upsert search
\* attributes decision; every later call returns the recorded version and
\* adds no decision
C16_LiveGetVersion ==
    [][\A minSupported \in Versions, maxSupported \in Versions :
          /\ FirstLiveCall(minSupported, maxSupported)
          /\ LaterLiveCall(minSupported, maxSupported)]_vars

\* a later call of a live run returned the version the first call recorded
C16_Witness ==
    /\ last.by = "call" /\ last.op = "GetVersion" /\ last.arg = VersionRange(1, 2)
    /\ ~wc.isReplay /\ last.panic = NoPanic
    /\ last.ret = <<Sprint(1)>>
    /\ Len(PendingDecisions(wc)) = 2

\* C17: in replay a GetVersion call for a change id without a recorded Version
\* marker returns DefaultVersion and adds no decision; with a marker recorded
\* it returns the recorded version
C17_ReplayGetVersion ==
    /\ [][\A minSupported \in Versions, maxSupported \in Versions :
          (GetVersionCall(minSupported, maxSupported) /\ wc.isReplay)
            => /\ last'.ret = <<Sprint(IF Recorded THEN wc.changeVersions["c"]
                                                   ELSE DefaultVersion)>>
               /\ wc'.decisionsHelper = wc.decisionsHelper
               /\ wc'.counterID = wc.counterID]_vars
    /\ [][\A version \in Versions :
             (/\ last'.by = "event" /\ last'.op = "MarkerRecorded"
              /\ last'.arg = "c=" \o Sprint(version)
              /\ last'.recovered = NoPanic)
               => /\ MapHas(wc'.changeVersions, "c")
                  /\ wc'.changeVersions["c"] = version]_vars

\* a replay got the version of the marker in its history and made no decision
C17_Witness ==
    /\ last.by = "call" /\ last.op = "GetVersion" /\ last.panic = NoPanic
    /\ wc.isReplay /\ last.ret = <<Sprint(MaxVersion)>>
    /\ wc.decisionsHelper.orderedDecisions = <<>>
    /\ wc.counterID = 0

\* the version a call is about to return
VersionToReturn(maxSupported) ==
    IF Recorded THEN wc.changeVersions["c"]
    ELSE IF wc.isReplay THEN DefaultVersion ELSE maxSupported

\* C18: GetVersion panics whenever the version it would return lies outside
\* minSupported..maxSupported, and returns no version outside that range
C18_VersionInRange ==
    [][\A minSupported \in Versions, maxSupported \in Versions :
          GetVersionCall(minSupported, maxSupported)
            => /\ (VersionToReturn(maxSupported) \notin minSupported..maxSupported)
                    <=> last'.panic = PanicVersion
               /\ last'.panic \in {NoPanic, PanicVersion}
               /\ last'.panic = NoPanic
                    => ParseInt(last'.ret[1]) \in minSupported..maxSupported]_vars

\* a recorded version below the supported range made the call panic
C18_Witness ==
    /\ last.by = "call" /\ last.op = "GetVersion" /\ last.arg = VersionRange(1, 2)
    /\ last.panic = PanicVersion
    /\ MapHas(wc.changeVersions, "c") /\ wc.changeVersions["c"] = 0

\* ---- C19: MutableSideEffect in live execution
MutableValues == {"nil", "x", "y"}

Stored == MapHas(wc.mutableSideEffect, "m")

\* no value is stored for the id, or the value of f is not equal to it
Changed(fValue) == ~Stored \/ ~isEqualValue(fValue, wc.mutableSideEffect["m"])

\* C19: in live execution every MutableSideEffect call returns the current
\* value; it adds a MutableSideEffect marker decision and updates the stored
\* value if and only if no value is stored or the new value is not equal to
\* the stored one, for any number of calls, several in one decision task
\* included
C19_MutableSideEffect ==
    [][\A fValue \in MutableValues :
          (/\ last'.by = "call" /\ last'.op = "MutableSideEffect" /\ last'.arg = fValue
           /\ ~wc.isReplay)
            => /\ last'.panic = NoPanic
               /\ IF Changed(fValue)
                    THEN /\ last'.ret = encodeValue(fValue)
                         /\ wc'.mutableSideEffect["m"] = encodeValue(fValue)
                         /\ PendingDecisions(wc')
                              = Append(PendingDecisions(wc),
                                       Attr(mutableSideEffectMarkerName, "m",
                                            encodeArgs(<<"m">> \o encodeValue(fValue))))
                    ELSE /\ last'.ret = wc.mutableSideEffect["m"]
                         /\ wc' = wc]_vars

\* ---- C20: UpsertSearchAttributes with nothing to upsert
errSearchAttributesNotSet == "search attributes is empty"

UpsertCall(count) ==
    /\ last'.by = "call" /\ last'.op = "UpsertSearchAttributes" /\ last'.arg = Sprint(count)

\* C20: UpsertSearchAttributes with an empty or nil map returns the 'search
\* attributes is empty' error and emits no decision: no state machine is
\* added, the sequence counter is not advanced and the search attributes of
\* the workflow info are unchanged
C20_EmptyUpsert ==
    [][UpsertCall(0)
        => /\ last'.ret = <<errSearchAttributesNotSet>>
           /\ last'.panic = NoPanic
           /\ wc'.decisionsHelper = wc.decisionsHelper
           /\ wc'.counterID = wc.counterID
           /\ wc'.searchAttributes = wc.searchAttributes]_vars

\* an empty upsert was refused and left the environment as it was
C20_Witness ==
    /\ last.by = "call" /\ last.op = "UpsertSearchAttributes" /\ last.arg = Sprint(0)
    /\ last.ret = <<errSearchAttributesNotSet>>
    /\ wc.counterID = 0
    /\ wc.searchAttributes = <<>>

\* ---- C21: the tick of the last event
TaskEvent == last'.by = "event" /\ last'.type # ""

\* the event resolved a pending local activity
LocalActivityResolved == wc'.pendingLaTasks # wc.pendingLaTasks

ClockEvent ==
    /\ TaskEvent
    /\ \/ last'.type = "DecisionTaskStarted"
       \/ last'.type = "MarkerRecorded" /\ LocalActivityResolved

\* C22 as stated: the clock changes only while a DecisionTaskStarted event is
\* processed
C22_AsStated ==
    [][Now(wc') # Now(wc) => TaskEvent /\ last'.type = "DecisionTaskStarted"]_vars

\* C22: the replay clock changes only while a DecisionTaskStarted event or a
\* LocalActivity marker that resolves a pending local activity is processed;
\* it takes the time the event carries unless that time is earlier than the
\* clock; any other event and every call leaves Now() unchanged
C22_ClockChanges ==
    [][/\ Now(wc') # Now(wc) => ClockEvent
       /\ ClockEvent
            => \E t \in Times :
                  /\ last'.arg = Sprint(t)
                  /\ Now(wc') = IF t < Now(wc) THEN Now(wc) ELSE t]_vars

\* a LocalActivity marker resolved its local activity and moved the clock to
\* the replay time it recorded
C22_Witness ==
    /\ last.by = "event" /\ last.type = "MarkerRecorded" /\ last.ticks >= 1
    /\ last.arg = Sprint(MaxTime)
    /\ Now(wc) = MaxTime
    /\ wc.pendingLaTasks = {}

\* ---- C23: the size limit of query results
UserQuery == last'.by = "query" /\ last'.id = "q" /\ last'.arg # ""

\* C23: ProcessQuery returns the result of a user query handler unchanged
\* when its length is at most the limit, and returns no result and the error
\* 'query result size (N) exceeds limit (2000000)' when its length N exceeds
\* the limit
C23_QueryResultLimit ==
    [][UserQuery
        => /\ wc' = wc
           /\ \E n \in QuerySizes :
                 /\ last'.arg = Sprint(n)
                 /\ IF n <= 2000000
                      THEN last'.err = "nil" /\ last'.ret = <<last'.kind, Sprint(n)>>
                      ELSE /\ last'.ret = <<>>
                           /\ last'.err = "query result size (" \o Sprint(n)
                                            \o ") exceeds limit (2000000)"]_vars

\* the large result of the integration test was rejected
C23_Witness ==
    /\ last.by = "query" /\ last.id = "q" /\ last.arg = Sprint(LargeQueryResultSize)
    /\ last.ret = <<>>
    /\ last.err = "query result size (3000000) exceeds limit (2000000)"

\* ---- C24: events of an unknown type
UnknownEvent == TaskEvent /\ last'.type = "Unknown"

\* machines, marker caches, sequence counter and replay clock are as before
SameWorkflowState ==
    /\ wc'.decisionsHelper = wc.decisionsHelper
    /\ wc'.sideEffectResult = wc.sideEffectResult
    /\ wc'.mutableSideEffect = wc.mutableSideEffect
    /\ wc'.changeVersions = wc.changeVersions
    /\ wc'.pendingLaTasks = wc.pendingLaTasks
    /\ wc'.counterID = wc.counterID
    /\ Now(wc') = Now(wc)

\* C24 as stated: an event of unknown type returns no error, does not call
\* the completion handler and changes no state
C24_AsStated ==
    [][UnknownEvent
        => /\ last'.err = "nil" /\ last'.panic = NoPanic
           /\ wc'.completeCalls = wc.completeCalls
           /\ SameWorkflowState]_vars

\* C24: ProcessEvent on an event of unknown type returns no error and changes
\* no state machine, marker cache, sequence counter or replay clock; when the
\* event is not the last of its task nothing runs and the completion handler
\* is not called; as the last event it still gets its tick, and the completion
\* handler is called exactly when that tick panics
C24_UnknownEventIgnored ==
    [][UnknownEvent
        => /\ last'.err = "nil" /\ last'.panic = NoPanic
           /\ SameWorkflowState
           /\ ~last'.isLast
                => /\ last'.ticks = 0
                   /\ last'.recovered = NoPanic
                   /\ wc'.completeCalls = wc.completeCalls
           /\ last'.isLast
                => /\ last'.ticks = 1
                   /\ wc'.completeCalls
                        = IF last'.recovered = NoPanic
                            THEN wc.completeCalls
                            ELSE Append(wc.completeCalls, newWorkflowPanicError(last'.recovered))]_vars

\* an event of unknown type was ignored while a timer was outstanding
C24_Witness ==
    /\ last.by = "event" /\ last.type = "Unknown" /\ ~last.isLast
    /\ last.err = "nil" /\ last.recovered = NoPanic
    /\ wc.completeCalls = <<>>
    /\ Len(dh.orderedDecisions) = 1

\* ---- C25: a close event after a local cancel resolved the waiter
\* the waiter of a machine of the collection was resolved by a local cancel
ResolvedByCancel(h, kind, id) ==
    /\ InList(h, makeDecisionID(kind, id))
    /\ Waiter(h, kind, id).handled
    /\ Waiter(h, kind, id).result = "Canceled"

\* a completed, failed, timed-out, fired or canceled event for such a machine
CloseAfterCancel ==
    /\ last'.by = "event"
    /\ last'.op \in {eventCompletion, eventCanceled}
    /\ last'.kind \in {decisionTypeActivity, decisionTypeTimer, decisionTypeChildWorkflow}
    /\ ResolvedByCancel(wc.decisionsHelper, last'.kind, last'.id)

\* the state the close event takes a cancelled machine to; "none" where the
\* machine does not expect the event
ClosedFrom(op, state) ==
    CASE op = eventCompletion /\ state = decisionStateCanceledAfterInitiated -> decisionStateCompleted
      [] op = eventCompletion /\ state = decisionStateInitiated -> decisionStateCompleted
      [] op = eventCompletion /\ state = decisionStateCancellationDecisionSent ->
           decisionStateCompletedAfterCancellationDecisionSent
      [] op = eventCanceled /\ state = decisionStateCancellationDecisionSent -> decisionStateCompleted
      [] OTHER -> "none"

\* C25: a completion event (completed, failed, timed out, canceled, fired)
\* for an activity, timer or child workflow whose waiter a local cancel has
\* resolved advances the state machine, does not invoke the callback again
\* and raises no panic; only an event the machine's state does not expect is
\* refused, with the illegal-state-transition panic, and it does not invoke
\* the callback either; user code that panics in the tick of a last event is
\* not the event's doing
C25_CloseAfterCancel ==
    [][CloseAfterCancel
        => LET before == StateIn(wc.decisionsHelper, makeDecisionID(last'.kind, last'.id))
           IN  IF ClosedFrom(last'.op, before) # "none"
                 THEN /\ last'.panic = NoPanic /\ last'.err = "nil"
                      /\ last'.recovered \in {NoPanic, PanicUserCode}
                      /\ last'.ticks = 0 => last'.recovered = NoPanic
                      /\ last'.state = ClosedFrom(last'.op, before)
                      /\ StateIn(wc'.decisionsHelper, makeDecisionID(last'.kind, last'.id))
                           = ClosedFrom(last'.op, before)
                      /\ last'.calls = 1
                 ELSE /\ last'.recovered = PanicInvalidTransition
                      /\ wc'.decisionsHelper = wc.decisionsHelper]_vars

\* the completion of an activity arrived after its cancel decision was sent
\* and its waiter had been resolved by the cancel request
C25_Witness ==
    /\ last.by = "event" /\ last.op = eventCompletion /\ last.kind = decisionTypeActivity
    /\ last.state = decisionStateCompletedAfterCancellationDecisionSent
    /\ last.calls = 1 /\ last.recovered = NoPanic
    /\ ResolvedByCancel(wc.decisionsHelper, decisionTypeActivity, last.id)

\* ---- C26: a timer cancelled before the server started it
\* the id of the timer of the run
TimerID(e) ==
    IF IDsOf(e.decisionsHelper, decisionTypeTimer) = {}
      THEN ""
      ELSE CHOOSE id \in IDsOf(e.decisionsHelper, decisionTypeTimer) : TRUE

\* the state of the timer of the run; Completed once it has left the
\* collection, "none" before it was started
TimerState(e) ==
    IF IDsOf(e.decisionsHelper, decisionTypeTimer) = {}
      THEN IF e.counterID = 0 THEN "none" ELSE decisionStateCompleted
      ELSE MachineAt(e.decisionsHelper, makeDecisionID(decisionTypeTimer, TimerID(e))).state

CancelTimerDecision == [decision |-> "CancelTimer", id |-> TimerID(wc), details |-> <<>>]

\* the input of the step was accepted
Accepted == last'.panic = NoPanic /\ last'.recovered \in {NoPanic, PanicUserCode}

\* the step the timer takes from each state of the path
TimerPathStep ==
    /\ (last'.op = "NewTimer" /\ Accepted) => TimerState(wc') = decisionStateCreated
    /\ (last'.op = "getDecisions(true)" /\ TimerState(wc) = decisionStateCreated)
         => /\ TimerState(wc') = decisionStateDecisionSent
            /\ Len(last'.decisions) = 1 /\ last'.decisions[1].decision = "StartTimer"
    /\ (last'.op = "RequestCancelTimer" /\ TimerState(wc) = decisionStateDecisionSent)
         => Accepted /\ TimerState(wc') = decisionStateCanceledBeforeInitiated
    /\ (last'.by = "decider" /\ TimerState(wc) = decisionStateCanceledBeforeInitiated)
         => TimerState(wc') = decisionStateCanceledBeforeInitiated /\ last'.decisions = <<>>
    /\ (last'.op = eventInitiated /\ last'.id = TimerID(wc)
         /\ TimerState(wc) = decisionStateCanceledBeforeInitiated)
         => Accepted /\ TimerState(wc') = decisionStateCanceledAfterInitiated
    /\ (last'.op = "getDecisions(true)" /\ TimerState(wc) = decisionStateCanceledAfterInitiated)
         => /\ TimerState(wc') = decisionStateCancellationDecisionSent
            /\ last'.decisions = <<CancelTimerDecision>>
    /\ (last'.by = "decider" /\ TimerState(wc) = decisionStateCancellationDecisionSent)
         => TimerState(wc') = decisionStateCancellationDecisionSent /\ last'.decisions = <<>>
    /\ (last'.op = eventCanceled /\ last'.id = TimerID(wc)
         /\ TimerState(wc) = decisionStateCancellationDecisionSent)
         => Accepted /\ TimerState(wc') = decisionStateCompleted

\* a CancelTimer decision is returned only for a timer that was cancelled
\* and then started, and a marked-as-sent one moves it on
OneCancelTimerDecision ==
    (last'.by = "decider" /\ \E i \in 1..Len(last'.decisions) : last'.decisions[i].decision = "CancelTimer")
        => /\ TimerState(wc) = decisionStateCanceledAfterInitiated
           /\ last'.decisions = <<CancelTimerDecision>>

\* C26: a timer that is started and cancelled in a later decision task,
\* before its TimerStarted event is processed, goes through Created,
\* DecisionSent, CanceledBeforeInitiated, CanceledAfterInitiated,
\* CancellationDecisionSent and Completed, and the decisions collected after
\* the TimerStarted event are exactly one CancelTimer decision
C26_TimerCancelBeforeInitiation == [][TimerPathStep /\ OneCancelTimerDecision]_vars

\* the TimerCanceled event completed a timer that was cancelled before the
\* server had started it
C26_Witness ==
    /\ last.by = "event" /\ last.op = eventCanceled /\ last.kind = decisionTypeTimer
    /\ last.state = decisionStateCompleted
    /\ last.calls = 1 /\ last.recovered = NoPanic
    /\ TimerState(wc) = decisionStateCompleted

\* ---- C27: a local cancel promotes the machine to the end of the list
CancelCalls == {"RequestCancelActivity", "RequestCancelTimer", "RequestCancelChildWorkflow"}

CancellationDecisions ==
    {"RequestCancelActivityTask", "CancelTimer", "RequestCancelExternalWorkflowExecution"}

\* an accepted cancel call moves its machine to the end of the list, or out
\* of it, and the other machines keep their order
CancelPromotes ==
    (/\ last'.by = "call" /\ last'.op \in CancelCalls /\ last'.panic = NoPanic
     /\ InMap(dh, makeDecisionID(last'.kind, last'.id)))
        => LET did == makeDecisionID(last'.kind, last'.id)
           IN  IDs(dh') = IF InMap(dh', did) THEN Append(Without(IDs(dh), did), did)
                                             ELSE Without(IDs(dh), did)

\* the decisions collected right after a cancel call: those pending of the
\* other machines, all created before the call, and then the cancellation
\* decision of the cancelled machine, if it has one to send
CollectedAfterCancel ==
    (/\ last.by = "call" /\ last.op \in CancelCalls /\ last.panic = NoPanic
     /\ InMap(dh, LastID)
     /\ last'.by = "decider")
        => LET others == SelectSeq(dh.orderedDecisions, LAMBDA d : d.id # LastID)
           IN  last'.decisions = PendingInOrder(others) \o getDecision_of(MachineAt(dh, LastID))

\* C27: a local cancel request (cancelTimer, requestCancelActivityTask, the
\* child-only cancel) moves the cancelled machine to the end of the list, so
\* that its cancellation decision is emitted after the pending decisions of
\* every machine created before the cancel call, a marker recorded between
\* the start and the cancel included
C27_CancelPromoted == [][CancelPromotes /\ CollectedAfterCancel]_vars

\* a timer was started, a Version marker recorded and the timer cancelled:
\* the marker decision comes before the CancelTimer decision
C27_Witness ==
    /\ last.by = "decider"
    /\ Len(last.decisions) = 3
    /\ last.decisions[1].decision = versionMarkerName
    /\ last.decisions[3].decision = "CancelTimer"

\* ---- C28: a cancel before the decision was sent
\* the decisions of a list that are for the activity or timer (kind, id)
DecisionsFor(decisions, kind, id) ==
    SelectSeq(decisions,
              LAMBDA a : /\ a.id = id
                         /\ a.decision \in IF kind = decisionTypeActivity
                                              THEN {"ScheduleActivityTask", "RequestCancelActivityTask"}
                                              ELSE {"StartTimer", "CancelTimer"})

\* a cancel request for an activity or timer in Created completes the
\* machine and takes it out of the collection, so that a collect finds
\* nothing for it
CancelInCreated ==
    (/\ last'.by = "call" /\ last'.op \in {"RequestCancelActivity", "RequestCancelTimer"}
     /\ InMap(dh, makeDecisionID(last'.kind, last'.id))
     /\ StateIn(dh, makeDecisionID(last'.kind, last'.id)) = decisionStateCreated)
        => /\ last'.panic = NoPanic
           /\ last'.state = decisionStateCompleted
           /\ ~InMap(dh', makeDecisionID(last'.kind, last'.id))
           /\ ~InList(dh', makeDecisionID(last'.kind, last'.id))
           /\ \A markAsSent \in BOOLEAN :
                 DecisionsFor(getDecisions(dh', markAsSent).result, last'.kind, last'.id) = <<>>

\* the collect that follows such a cancel returns no decision for the machine
NothingCollectedAfterCancel ==
    (/\ last.by = "call" /\ last.op \in {"RequestCancelActivity", "RequestCancelTimer"}
     /\ last.panic = NoPanic /\ last.state = decisionStateCompleted
     /\ last'.by = "decider")
        => DecisionsFor(last'.decisions, last.kind, last.id) = <<>>

\* getDecisions returns decisions of machines of the collection only
OnlyCollectedMachines ==
    last'.by = "decider"
        => \A i \in 1..Len(last'.decisions) :
              \E j \in 1..Len(dh.orderedDecisions) :
                 getDecision_of(dh.orderedDecisions[j]) = <<last'.decisions[i]>>

\* C28: cancelling an activity or timer whose schedule or start decision has
\* not been sent (state Created) moves it directly to Completed, and no
\* decision for it, neither schedule/start nor cancel, is returned by a later
\* getDecisions
C28_CancelBeforeSent ==
    [][CancelInCreated /\ NothingCollectedAfterCancel /\ OnlyCollectedMachines]_vars

\* an activity was cancelled before its schedule decision was sent
C28_Witness ==
    /\ last.by = "call" /\ last.op = "RequestCancelActivity" /\ last.id = "a"
    /\ last.state = decisionStateCompleted /\ last.panic = NoPanic
    /\ dh.orderedDecisions = <<>> /\ dh.decisions = {}
    /\ getDecisions(dh, TRUE).result = <<>>

\* ---- C29: when the cancel decision is emitted
\* the activities and timers of the collection
Cancellable(h) ==
    {did \in h.decisions : did.decisionType \in {decisionTypeActivity, decisionTypeTimer}}

CancelDecisionOf(did) ==
    [decision |-> IF did.decisionType = decisionTypeActivity
                    THEN "RequestCancelActivityTask" ELSE "CancelTimer",
     id |-> did.id, details |-> <<>>]

\* the states in which a machine whose decision was sent has nothing to send
SilentStates ==
    {decisionStateDecisionSent, decisionStateInitiated, decisionStateCanceledBeforeInitiated,
     decisionStateCancellationDecisionSent, decisionStateCompletedAfterCancellationDecisionSent}

\* a collect returns the cancel decision of exactly the machines that are
\* cancelled and initiated, once each, and marking it as sent moves them on
EmitStep ==
    last'.by = "decider"
        => \A did \in Cancellable(dh) :
              /\ StateIn(dh, did) = decisionStateCanceledAfterInitiated
                   => /\ DecisionsFor(last'.decisions, did.decisionType, did.id)
                           = <<CancelDecisionOf(did)>>
                      /\ StateIn(dh', did) = IF last'.op = "getDecisions(true)"
                                                THEN decisionStateCancellationDecisionSent
                                                ELSE decisionStateCanceledAfterInitiated
              /\ StateIn(dh, did) \in SilentStates
                   => /\ DecisionsFor(last'.decisions, did.decisionType, did.id) = <<>>
                      /\ StateIn(dh', did) = StateIn(dh, did)

\* a cancel in Initiated makes the machine cancelled and initiated at once, a
\* cancel in DecisionSent only with the scheduled or started event
CancelledAndInitiatedStep ==
    \A did \in Cancellable(dh) :
        (StateIn(dh', did) = decisionStateCanceledAfterInitiated
           /\ StateIn(dh, did) # decisionStateCanceledAfterInitiated)
          => /\ last'.kind = did.decisionType /\ last'.id = did.id
             /\ \/ /\ last'.by = "call" /\ last'.op \in CancelCalls
                   /\ StateIn(dh, did) = decisionStateInitiated
                \/ /\ last'.by = "event" /\ last'.op = eventInitiated
                   /\ StateIn(dh, did) = decisionStateCanceledBeforeInitiated

\* a machine whose cancel decision was sent is cancelled and initiated anew
\* only after a cancel-failed event
AfterCancelSentStep ==
    \A did \in Cancellable(dh) :
        StateIn(dh, did) = decisionStateCancellationDecisionSent
          => \/ StateIn(dh', did) \in {decisionStateCancellationDecisionSent,
                                       decisionStateCompletedAfterCancellationDecisionSent,
                                       decisionStateCompleted}
             \/ /\ StateIn(dh', did) = decisionStateInitiated
                /\ last'.by = "event" /\ last'.op = eventCancelFailed

Closable(h) ==
    {did \in h.decisions :
        did.decisionType \in {decisionTypeActivity, decisionTypeTimer, decisionTypeChildWorkflow}}

\* the event by which the server reports that a cancellation failed
CancelFailedOps == {eventCancelFailed, "cancel-external-failed"}

EventFor(op, did) ==
    /\ last'.by = "event" /\ last'.op \in op
    /\ last'.kind = did.decisionType /\ last'.id = did.id

\* the decisions of the machines of the list other than did, in list order
DecisionsOfOthers(h, did) ==
    PendingInOrder(SelectSeq(h.orderedDecisions, LAMBDA d : d.id # did))

\* the close event of a machine whose cancellation decision was sent is
\* accepted and leaves the machine waiting, done and with nothing to send
CloseOvertakesCancel ==
    \A did \in Closable(dh) :
        (EventFor({eventCompletion}, did) /\ StateIn(dh, did) = decisionStateCancellationDecisionSent)
            => /\ Accepted /\ last'.err = "nil"
               /\ InMap(dh', did)
               /\ StateIn(dh', did) = decisionStateCompletedAfterCancellationDecisionSent
               /\ isDone(MachineAt(dh', did))
               /\ getDecision_of(MachineAt(dh', did)) = <<>>

\* while it waits the machine contributes nothing to a collection of decisions
WaitingIsSilent ==
    \A did \in Closable(dh) :
        (StateIn(dh, did) = decisionStateCompletedAfterCancellationDecisionSent
            /\ last'.op \in {"getDecisions(true)", "getDecisions(false)"})
            => /\ last'.decisions = DecisionsOfOthers(dh, did)
               /\ StateIn(dh', did) = decisionStateCompletedAfterCancellationDecisionSent

\* the machine leaves the waiting state only by the cancel-failed event, which
\* completes it
WaitingEndsByCancelFailed ==
    \A did \in Closable(dh) :
        StateIn(dh, did) = decisionStateCompletedAfterCancellationDecisionSent
            => /\ (InMap(dh', did) /\ StateIn(dh', did) = StateIn(dh, did))
                    \/ (EventFor(CancelFailedOps, did) /\ ~InMap(dh', did))
               /\ EventFor(CancelFailedOps, did)
                    => /\ Accepted /\ last'.err = "nil"
                       /\ last'.state = decisionStateCompleted
                       /\ ~InMap(dh', did)

\* C30: when the close event (completed, failed, timed out, fired) of an
\* activity, a timer or a child workflow arrives while its machine is in
\* CancellationDecisionSent, the machine moves to
\* CompletedAfterCancellationDecisionSent, reports isDone, emits no further
\* decision, and moves to Completed only when the cancel-failed event arrives
C30_CloseOvertakesCancel ==
    [][CloseOvertakesCancel /\ WaitingIsSilent /\ WaitingEndsByCancelFailed]_vars

\* the cancel-failed event has completed a timer that was waiting for it
C30_Witness ==
    /\ last.by = "event" /\ last.op = eventCancelFailed /\ last.kind = decisionTypeTimer
    /\ last.state = decisionStateCompleted
    /\ last.panic = NoPanic /\ last.recovered = NoPanic
    /\ ~InMap(dh, makeDecisionID(decisionTypeTimer, last.id))
    /\ dh.orderedDecisions = <<>>

\* ---- C31: a cancelled timer is done
Timers(h) == {did \in h.decisions : did.decisionType = decisionTypeTimer}

CancelIssued(did) ==
    last'.by = "call" /\ last'.op = "RequestCancelTimer" /\ last'.id = did.id

\* the timer is done as soon as the cancel is issued, whatever its state
DoneOnceCancelled ==
    \A did \in Timers(dh) :
        (CancelIssued(did) /\ InMap(dh', did)) => isDone(MachineAt(dh', did))

\* a timer that is done stays done while it is in the collection
DoneIsKept ==
    \A did \in Timers(dh) \cap Timers(dh') :
        isDone(MachineAt(dh, did)) => isDone(MachineAt(dh', did))

\* a timer of the collection becomes done only by a cancel
DoneOnlyByCancel ==
    \A did \in Timers(dh') :
        (isDone(MachineAt(dh', did)) /\ ~(InMap(dh, did) /\ isDone(MachineAt(dh, did))))
            => CancelIssued(did) /\ InMap(dh, did)

\* C31: isDone of a timer is true from the moment cancel is issued, in every
\* later state and after every later event, the CancelTimerFailed event
\* included; for a timer that was never cancelled it is true only in
\* Completed
C31_TimerDoneOnceCancelled == [][DoneOnceCancelled /\ DoneIsKept /\ DoneOnlyByCancel]_vars

\* the CancelTimerFailed event took a cancelled timer back to Initiated, and
\* the timer is still done
C31_Witness ==
    /\ last.by = "event" /\ last.op = eventCancelFailed /\ last.kind = decisionTypeTimer
    /\ last.state = decisionStateInitiated /\ last.panic = NoPanic
    /\ InMap(dh, makeDecisionID(decisionTypeTimer, last.id))
    /\ isDone(MachineAt(dh, makeDecisionID(decisionTypeTimer, last.id)))
    /\ ~decisionStateMachineBase_isDone(MachineAt(dh, makeDecisionID(decisionTypeTimer, last.id)))

\* ---- C32: the cancellation failed
\* the state in which a machine of the kind runs on the server
RunningState(decisionType) ==
    IF decisionType = decisionTypeChildWorkflow THEN decisionStateStarted ELSE decisionStateInitiated

\* the cancel-failed event takes a machine whose cancellation decision was
\* sent back to its running state
CancelFailedStep ==
    \A did \in Closable(dh) :
        (EventFor(CancelFailedOps, did) /\ StateIn(dh, did) = decisionStateCancellationDecisionSent)
            => /\ Accepted /\ last'.err = "nil"
               /\ InMap(dh', did)
               /\ StateIn(dh', did) = RunningState(did.decisionType)
               /\ last'.state = RunningState(did.decisionType)

\* a close event completes a machine that is in its running state
CloseInRunningState ==
    \A did \in Closable(dh) :
        (EventFor({eventCompletion}, did) /\ StateIn(dh, did) = RunningState(did.decisionType))
            => /\ Accepted /\ last'.err = "nil"
               /\ last'.state = decisionStateCompleted
               /\ ~InMap(dh', did)

\* C32: a cancel-failed event received in CancellationDecisionSent returns
\* the machine to its running state, Initiated for a timer or an activity and
\* Started for a child workflow, from which a later close event completes it
C32_CancelFailed == [][CancelFailedStep /\ CloseInRunningState]_vars

\* the failed cancellation of a child workflow left it in Started
C32_Witness ==
    /\ last.by = "event" /\ last.op \in CancelFailedOps /\ last.kind = decisionTypeChildWorkflow
    /\ last.state = decisionStateStarted /\ last.panic = NoPanic /\ last.recovered = NoPanic
    /\ StateIn(dh, makeDecisionID(decisionTypeChildWorkflow, last.id)) = decisionStateStarted
    /\ InMap(dh, makeDecisionID(decisionTypeChildWorkflow, last.id))

\* ---- C33: the cancellation of a started child workflow
Children(h) == {did \in h.decisions : did.decisionType = decisionTypeChildWorkflow}

\* the cancellation decision of a child: the workflow id and the child-only
\* flag, without run id and cancellation id
ChildCancelDecision(workflowID) ==
    [decision |-> "RequestCancelExternalWorkflowExecution", id |-> workflowID,
     details |-> <<"ChildWorkflowOnly">>]

\* the decisions a collection returned for the child
ChildDecisions(decisions, workflowID) ==
    SelectSeq(decisions,
              LAMBDA a : /\ a.id = workflowID
                         /\ a \in {ChildCancelDecision(workflowID),
                                   Attr("StartChildWorkflowExecution", workflowID, <<>>)})

IsCollection == last'.op \in {"getDecisions(true)", "getDecisions(false)"}

\* Started is entered from Initiated by the started event, or again after a
\* failed cancellation, and a close event in Started completes the child
StartedBetween ==
    \A did \in Children(dh) :
        /\ (EventFor({eventStarted}, did) /\ StateIn(dh, did) = decisionStateInitiated)
              => Accepted /\ StateIn(dh', did) = decisionStateStarted /\ InMap(dh', did)
        /\ (StateIn(dh', did) = decisionStateStarted /\ StateIn(dh, did) # decisionStateStarted)
              => \/ EventFor({eventStarted}, did) /\ StateIn(dh, did) = decisionStateInitiated
                 \/ EventFor(CancelFailedOps, did)
                       /\ StateIn(dh, did) = decisionStateCancellationDecisionSent
        /\ (EventFor({eventCompletion}, did) /\ StateIn(dh, did) = decisionStateStarted)
              => Accepted /\ ~InMap(dh', did)

\* a cancel in Started is accepted and the next collection has the one
\* cancellation decision of the child
CancelInStarted ==
    \A did \in Children(dh) :
        /\ (last'.op = "RequestCancelChildWorkflow" /\ last'.id = did.id
               /\ StateIn(dh, did) = decisionStateStarted)
              => /\ last'.panic = NoPanic
                 /\ StateIn(dh', did) = decisionStateCanceledAfterStarted
        /\ (IsCollection /\ StateIn(dh, did) = decisionStateCanceledAfterStarted)
              => /\ ChildDecisions(last'.decisions, did.id) = <<ChildCancelDecision(did.id)>>
                 /\ last'.op = "getDecisions(true)"
                       => StateIn(dh', did) = decisionStateCancellationDecisionSent
        /\ (IsCollection /\ ChildCancelDecision(did.id) \in Range(last'.decisions))
              => StateIn(dh, did) = decisionStateCanceledAfterStarted

\* C33: a child-workflow machine has a Started state between Initiated and
\* Completed, and a cancel issued in Started emits exactly one
\* RequestCancelExternalWorkflowExecution decision with ChildWorkflowOnly
\* set, the workflow id of the child, and no cancellation id or run id
C33_ChildCancelInStarted == [][StartedBetween /\ CancelInStarted]_vars

\* the cancellation decision of a started child was collected and marked as
\* sent
C33_Witness ==
    /\ last.op = "getDecisions(true)"
    /\ \E did \in Children(dh) :
          /\ last.decisions = <<ChildCancelDecision(did.id)>>
          /\ StateIn(dh, did) = decisionStateCancellationDecisionSent

\* ---- C34: requests to external workflows have a linear life
Externals(h) == {did \in h.decisions : did.decisionType \in ExternalKinds}

\* the events that close a request: delivered or failed
ExternalCloseOps == {eventCompletion, "cancel-external-requested", "cancel-external-failed"}

Rejected == last'.panic = NoPanic /\ last'.recovered = PanicInvalidTransition

\* the decisions of a collection that carry the id of the machine
RequestsOf(decisions, did) == SelectSeq(decisions, LAMBDA a : did.id \in Range(a.details))

\* a machine changes state only along Created, DecisionSent, Initiated,
\* Completed
LinearLife ==
    \A did \in Externals(dh) :
        StateIn(dh', did) # StateIn(dh, did)
            => \/ /\ StateIn(dh, did) = decisionStateCreated
                  /\ StateIn(dh', did) = decisionStateDecisionSent /\ InMap(dh', did)
                  /\ last'.op = "getDecisions(true)"
               \/ /\ StateIn(dh, did) = decisionStateDecisionSent
                  /\ StateIn(dh', did) = decisionStateInitiated /\ InMap(dh', did)
                  /\ EventFor({eventInitiated}, did)
               \/ /\ StateIn(dh, did) = decisionStateInitiated
                  /\ ~InMap(dh', did)
                  /\ EventFor(ExternalCloseOps, did)

\* the request decision is returned from Created only
RequestFromCreated ==
    \A did \in Externals(dh) :
        IsCollection
            => /\ Len(RequestsOf(last'.decisions, did))
                    = IF StateIn(dh, did) = decisionStateCreated THEN 1 ELSE 0
               /\ (last'.op = "getDecisions(true)" /\ StateIn(dh, did) = decisionStateCreated)
                    => StateIn(dh', did) = decisionStateDecisionSent

\* each event is accepted in one state only, and a rejected event leaves the
\* state
EventsInOrder ==
    \A did \in Externals(dh) :
        /\ EventFor({eventInitiated}, did)
              => IF StateIn(dh, did) = decisionStateDecisionSent
                   THEN Accepted /\ StateIn(dh', did) = decisionStateInitiated
                   ELSE Rejected /\ StateIn(dh', did) = StateIn(dh, did)
        /\ EventFor(ExternalCloseOps, did)
              => IF StateIn(dh, did) = decisionStateInitiated
                   THEN Accepted /\ ~InMap(dh', did)
                   ELSE Rejected /\ StateIn(dh', did) = StateIn(dh, did)

\* the cancel method panics and changes nothing
CancelUnsupported ==
    (last'.by = "call" /\ last'.op = "cancel" /\ last'.kind \in ExternalKinds)
        => last'.panic = PanicUnsupported /\ dh' = dh

\* C34: external-cancel and external-signal machines follow only the linear
\* life Created, DecisionSent, Initiated, Completed: the request decision is
\* emitted once, from Created; the initiated event is accepted only in
\* DecisionSent; the delivered event and the failed event are accepted only
\* in Initiated and complete the machine; the local cancel is unsupported
\* and panics
C34_ExternalLinearLife ==
    [][LinearLife /\ RequestFromCreated /\ EventsInOrder /\ CancelUnsupported]_vars

\* the failed event completed a request to cancel an external workflow
C34_Witness ==
    /\ last.by = "event" /\ last.op = "cancel-external-failed"
    /\ last.kind = decisionTypeCancellation
    /\ last.state = decisionStateCompleted /\ last.calls = 1
    /\ last.panic = NoPanic /\ last.recovered = NoPanic
    /\ ~InMap(dh, makeDecisionID(decisionTypeCancellation, last.id))

\* ---- C35: markers and search attributes are complete once sent
SentOnceKinds == {decisionTypeMarker, decisionTypeUpsertSearchAttributes}

SentOnce(h) == {did \in h.decisions : did.decisionType \in SentOnceKinds}

\* how many times a collection returned the decision of the machine
TimesReturned(decisions, d) ==
    Cardinality({i \in 1..Len(decisions) : decisions[i] = d.attributes})

\* a collection returns the decision of the machine once; one that marks as
\* sent removes the machine, one that does not leaves it in Created
CompleteOnceSent ==
    \A did \in SentOnce(dh) :
        IsCollection
            => /\ TimesReturned(last'.decisions, MachineAt(dh, did)) = 1
               /\ IF last'.op = "getDecisions(true)"
                    THEN ~InMap(dh', did) /\ ~InList(dh', did)
                    ELSE InMap(dh', did) /\ StateIn(dh', did) = decisionStateCreated

\* in the collection the machine is in Created, and only a collection that
\* marks as sent takes it out
CreatedUntilSent ==
    /\ \A did \in SentOnce(dh') : StateIn(dh', did) = decisionStateCreated
    /\ \A did \in SentOnce(dh) : ~InMap(dh', did) => last'.op = "getDecisions(true)"

\* C35: marker machines (SideEffect, Version, LocalActivity,
\* MutableSideEffect) and upsert-search-attributes machines emit their
\* decision exactly once and reach Completed, and are removed, at the
\* getDecisions(true) call that emits it, with no history event needed;
\* getDecisions(false) leaves them in Created
C35_CompleteOnceSent == [][CompleteOnceSent /\ CreatedUntilSent]_vars

\* a collection that marked as sent returned a marker and the search
\* attributes of a version, and the collection is empty
C35_Witness ==
    /\ last.op = "getDecisions(true)"
    /\ \E i, j \in 1..Len(last.decisions) :
          /\ last.decisions[i].decision = versionMarkerName
          /\ last.decisions[j].decision = "UpsertWorkflowSearchAttributes"
    /\ dh.orderedDecisions = <<>> /\ dh.decisions = {}

\* ---- C36: a machine that completes has resolved its waiter
WaiterKinds ==
    {decisionTypeActivity, decisionTypeTimer, decisionTypeChildWorkflow,
     decisionTypeCancellation, decisionTypeSignal}

Waiting(h) == {did \in h.decisions : did.decisionType \in WaiterKinds}

\* the step was for the machine and left its waiter resolved
ResolvedBy(did) ==
    /\ last'.kind = did.decisionType /\ last'.id = did.id
    /\ last'.calls >= 1

\* C36: whenever a machine that carries a waiter (activity, timer, child
\* workflow, external cancel, external signal) reaches Completed and is
\* removed, by a history event or by a local cancel, its waiter has been
\* resolved, so that no future is left pending; this holds also for a child
\* workflow cancelled before its start decision was sent
C36_WaiterResolved ==
    [][\A did \in Waiting(dh) :
          (~InMap(dh', did) /\ last'.panic = NoPanic) => ResolvedBy(did)]_vars

\* ---- C37: a child workflow cancelled before it has started
CancelledBeforeStart == {decisionStateCanceledBeforeInitiated, decisionStateCanceledAfterInitiated}

ChildCancelCall(did) ==
    last'.by = "call" /\ last'.op = "RequestCancelChildWorkflow" /\ last'.id = did.id

\* the cancel is remembered and nothing is sent for it before the child has
\* started
CancelWaitsForStart ==
    \A did \in Children(dh) :
        /\ (ChildCancelCall(did) /\ StateIn(dh, did) = decisionStateDecisionSent)
              => last'.panic = NoPanic /\ StateIn(dh', did) = decisionStateCanceledBeforeInitiated
        /\ (ChildCancelCall(did) /\ StateIn(dh, did) = decisionStateInitiated)
              => last'.panic = NoPanic /\ StateIn(dh', did) = decisionStateCanceledAfterInitiated
        /\ (EventFor({eventInitiated}, did) /\ StateIn(dh, did) = decisionStateCanceledBeforeInitiated)
              => Accepted /\ StateIn(dh', did) = decisionStateCanceledAfterInitiated
        /\ (IsCollection /\ StateIn(dh, did) \in CancelledBeforeStart)
              => /\ ChildDecisions(last'.decisions, did.id) = <<>>
                 /\ StateIn(dh', did) = StateIn(dh, did)

\* the started event releases the one cancellation decision
CancelSentOnceStarted ==
    \A did \in Children(dh) :
        /\ (EventFor({eventStarted}, did) /\ StateIn(dh, did) = decisionStateCanceledAfterInitiated)
              => Accepted /\ StateIn(dh', did) = decisionStateCanceledAfterStarted
        /\ (last'.op = "getDecisions(true)" /\ StateIn(dh, did) = decisionStateCanceledAfterStarted)
              => /\ ChildDecisions(last'.decisions, did.id) = <<ChildCancelDecision(did.id)>>
                 /\ StateIn(dh', did) = decisionStateCancellationDecisionSent
        /\ (IsCollection /\ StateIn(dh, did) = decisionStateCancellationDecisionSent)
              => ChildDecisions(last'.decisions, did.id) = <<>>

\* a child that closes or fails to start first completes, and no
\* cancellation decision was or will be returned for it
ClosedBeforeStart ==
    \A did \in Children(dh) :
        /\ (EventFor({eventCompletion}, did) /\ StateIn(dh, did) = decisionStateCanceledAfterInitiated)
              => Accepted /\ ~InMap(dh', did)
        /\ (EventFor({eventInitiationFailed}, did)
               /\ StateIn(dh, did) = decisionStateCanceledBeforeInitiated)
              => Accepted /\ ~InMap(dh', did)
        /\ (StateIn(dh, did) \in CancelledBeforeStart /\ InMap(dh', did))
              => StateIn(dh', did) \in CancelledBeforeStart \cup {decisionStateCanceledAfterStarted}

\* C37: a cancel issued for a child workflow before its started event, in
\* DecisionSent or Initiated, emits no decision until
\* ChildWorkflowExecutionStarted arrives, after which exactly one child-only
\* cancel decision is emitted; if the child closes or fails to start first,
\* the machine completes without ever emitting a cancel decision
C37_ChildCancelBeforeStart ==
    [][CancelWaitsForStart /\ CancelSentOnceStarted /\ ClosedBeforeStart]_vars

\* the started event reached a child that was cancelled before it
C37_Witness ==
    /\ last.by = "event" /\ last.op = eventStarted /\ last.kind = decisionTypeChildWorkflow
    /\ last.state = decisionStateCanceledAfterStarted
    /\ last.panic = NoPanic /\ last.recovered = NoPanic
    /\ StateIn(dh, makeDecisionID(decisionTypeChildWorkflow, last.id)) = decisionStateCanceledAfterStarted

\* ---- C38: what an illegal state transition leaves behind
IllegalTransitionStep ==
    last'.panic = PanicInvalidTransition \/ last'.recovered = PanicInvalidTransition

SameMachines == dh'.decisions = dh.decisions

SameStates == \A did \in dh.decisions : StateIn(dh', did) = StateIn(dh, did)

SameDone ==
    \A did \in dh.decisions : isDone(MachineAt(dh', did)) = isDone(MachineAt(dh, did))

SameMaps ==
    /\ dh'.scheduledEventIDToActivityID = dh.scheduledEventIDToActivityID
    /\ dh'.scheduledEventIDToCancellationID = dh.scheduledEventIDToCancellationID
    /\ dh'.scheduledEventIDToSignalID = dh.scheduledEventIDToSignalID

\* C38 as stated: an operation on the decisions helper that panics with an
\* illegal state transition leaves the collection exactly as it was: the
\* same machines, the same states and isDone values, the same list order and
\* the same scheduled-event-id maps
C38_AsStated ==
    [][IllegalTransitionStep
         => SameMachines /\ SameStates /\ SameDone /\ IDs(dh') = IDs(dh) /\ SameMaps]_vars

\* the machine the operation looked up is now the last of the list
LookedUpIsLast ==
    IDs(dh') = Append(Without(IDs(dh), makeDecisionID(last'.kind, last'.id)),
                      makeDecisionID(last'.kind, last'.id))

\* a map keeps its entries, and only an initiated event adds the one of its
\* event id
MapKept(before, after) ==
    /\ DOMAIN before \subseteq DOMAIN after
    /\ \A k \in DOMAIN before : after[k] = before[k]
    /\ after # before
         => /\ last'.by = "event" /\ last'.op = eventInitiated
            /\ Cardinality(DOMAIN after \ DOMAIN before) = 1
            /\ \A k \in DOMAIN after \ DOMAIN before : after[k] = last'.id

MapsKept ==
    /\ MapKept(dh.scheduledEventIDToActivityID, dh'.scheduledEventIDToActivityID)
    /\ MapKept(dh.scheduledEventIDToCancellationID, dh'.scheduledEventIDToCancellationID)
    /\ MapKept(dh.scheduledEventIDToSignalID, dh'.scheduledEventIDToSignalID)

\* C38, amended: an operation that panics with an illegal state transition
\* leaves the machines of the collection, their states and their isDone
\* values; the machine it looked up has moved to the end of the list, and an
\* initiated event has recorded its event id
C38_IllegalTransitionFrame ==
    [][IllegalTransitionStep
         => SameMachines /\ SameStates /\ SameDone /\ LookedUpIsLast /\ MapsKept]_vars

\* a scheduled event for an activity whose decision was not sent panicked:
\* the activity is still in Created, it is the last of two machines, and the
\* event id is recorded for it
C38_Witness ==
    /\ last.by = "event" /\ last.op = eventInitiated /\ last.kind = decisionTypeActivity
    /\ last.recovered = PanicInvalidTransition
    /\ last.state = decisionStateCreated
    /\ Len(dh.orderedDecisions) = 2
    /\ dh.orderedDecisions[2].id = makeDecisionID(decisionTypeActivity, last.id)
    /\ \E n \in DOMAIN dh.scheduledEventIDToActivityID :
          dh.scheduledEventIDToActivityID[n] = last.id

\* ---- C39: a second cancel
\* the states a machine is in only after a cancel
CancelledStates ==
    {decisionStateCanceledBeforeInitiated, decisionStateCanceledAfterInitiated,
     decisionStateCanceledAfterStarted, decisionStateCancellationDecisionSent,
     decisionStateCompletedAfterCancellationDecisionSent}

\* the cancel call is for an intent that a cancel call has cancelled before:
\* its machine is in a state reached by a cancel, or the call repeats the
\* call before it
SecondCancel ==
    /\ last'.by = "call" /\ last'.op \in CancelCalls
    /\ \/ StateIn(dh, makeDecisionID(last'.kind, last'.id)) \in CancelledStates
       \/ last.by = "call" /\ last.op = last'.op /\ last.id = last'.id /\ last.panic = NoPanic

\* C39: cancelling an intent that is already cancelled is a no-op: a second
\* RequestCancelTimer, RequestCancelActivity or RequestCancelChildWorkflow
\* for the same id, in any state reached after the first cancel, raises no
\* panic, emits no additional decision and invokes no callback a second time
C39_SecondCancelIsNoOp ==
    [][SecondCancel
         => /\ last'.panic = NoPanic
            /\ last'.ran = FALSE
            /\ Range(PendingInOrder(dh'.orderedDecisions)) = Range(PendingInOrder(dh.orderedDecisions))
            /\ StateIn(dh', makeDecisionID(last'.kind, last'.id))
                 = StateIn(dh, makeDecisionID(last'.kind, last'.id))]_vars

\* ---- C40: the id map and the ordered list hold the same machines
\* the list holds each machine of the map once and no other
MapAndListAgree(h) ==
    /\ Range(IDs(h)) = h.decisions
    /\ Len(h.orderedDecisions) = Cardinality(h.decisions)

\* a call that adds an intent
AddCall == last'.by = "call" /\ last'.op \in CreationCalls /\ last'.state # "none"

\* an add of an id that is present panics and changes nothing
DuplicateAdd ==
    /\ (AddCall /\ InMap(dh, makeDecisionID(last'.kind, last'.id)))
          => last'.panic = PanicDuplicateDecision /\ dh' = dh
    /\ last'.panic = PanicDuplicateDecision
          => AddCall /\ InMap(dh, makeDecisionID(last'.kind, last'.id)) /\ dh' = dh

\* an add of an id that is not present, whether it was used before or not,
\* puts the machine into map and list in Created
FreshAdd ==
    (AddCall /\ ~InMap(dh, makeDecisionID(last'.kind, last'.id)) /\ last'.panic = NoPanic)
        => /\ InMap(dh', makeDecisionID(last'.kind, last'.id))
           /\ InList(dh', makeDecisionID(last'.kind, last'.id))
           /\ StateIn(dh', makeDecisionID(last'.kind, last'.id)) = decisionStateCreated
           /\ dh'.decisions = dh.decisions \cup {makeDecisionID(last'.kind, last'.id)}

\* C40: after any sequence of operations, those that panic included, the id
\* map and the ordered list of the decisions helper contain exactly the same
\* machines, each (kind, id) at most once; adding an intent whose (kind, id)
\* is present panics without changing the collection, and the id is usable
\* again once the earlier machine is Completed and removed
C40_MapAndListAgree ==
    [][MapAndListAgree(dh) /\ MapAndListAgree(dh') /\ DuplicateAdd /\ FreshAdd]_vars

\* the activity id "a" is in use again: the activity was added after an
\* earlier activity of that id was scheduled, closed and removed
C40_Witness ==
    /\ last.by = "call" /\ last.op = "ExecuteActivity" /\ last.id = "a"
    /\ last.panic = NoPanic /\ last.state = decisionStateCreated
    /\ StateIn(dh, makeDecisionID(decisionTypeActivity, "a")) = decisionStateCreated
    /\ MapAndListAgree(dh)
    /\ \E n \in DOMAIN dh.scheduledEventIDToActivityID : dh.scheduledEventIDToActivityID[n] = "a"

====
